---------------------------- MODULE Spec2Model ----------------------------
(***************************************************************************)
(* A model of the Omron tag-discovery client (src/omron-ref).              *)
(*                                                                         *)
(* Representation of machine integers.  A value of an integral type of     *)
(* w bytes is the sequence of its w base-256 digits, least significant     *)
(* digit first (the numeral of the value, not its memory image).  The      *)
(* memory image depends on the host (ObjectBytes), __builtin_bswapNN       *)
(* reverses the digits, and Val gives the number where arithmetic needs    *)
(* it.  size_t is modelled as a cursor modulo 2^SizeBits.                  *)
(*                                                                         *)
(* Several specifications share the variables; each one drives a part of   *)
(* the program and leaves the other variables at their initial value:      *)
(*   Spec       one FixedBufferSerializer or one FixedBufferDeserializer   *)
(*              under arbitrary call sequences (the two objects share no   *)
(*              state, so a behaviour drives one of them)                  *)
(*   SpecRT     serialize(x) followed by read<T> over the written bytes    *)
(*   SpecArr    get_array_size applied to bounded inputs                   *)
(*   SpecPath   variable_request_path applied to names of every length     *)
(*              the function accepts                                       *)
(*   SpecEnum   list_signals against a controller that answers each        *)
(*              request as it likes                                        *)
(***************************************************************************)
EXTENDS Integers, Sequences, FiniteSets, TLC

VARIABLES
    host,      \* std::endian::native of the build: "little" or "big"
    pc,        \* position of the driver of the specification
    ser,       \* a FixedBufferSerializer: [buffer, cursor, has_error, endianess]
    des,       \* a FixedBufferDeserializer: [buffer, cursor, has_error, endianess]
    call,      \* the last member function called: [obj, op, n]
    ret,       \* its boolean result
    out,       \* the bytes the last read delivered (the value of read<T>)
    touched,   \* indices of the deserializer's buffer that memcpy has read
    arg,       \* the inputs of the operation a scenario applies (a record)
    result,    \* what that operation returned (list_signals: the catalog)
    num_variables, \* get_variables_fast: num, the count get_num_variables returned
    names,     \* get_variables_fast: the names collected so far
    tag_index, \* get_variables_fast: index into tag_types of the tag type paged
    next_instance_id, \* get_variables_fast: the paging cursor (a uint32_t)
    varinfos,  \* get_variables_fast: vars, the VariableInfo resolved so far
    failure,   \* the exception that ended list_signals ("" while none)
    sent,      \* history: the payloads handed to tag.send, in order
    served     \* history: the names the controller put into its pages,
               \* per tag type: [sys, usr]

enumVars == <<num_variables, names, tag_index, next_instance_id, varinfos, failure, sent, served>>

vars == <<host, pc, ser, des, call, ret, out, touched, arg, result, enumVars>>

\* the value of a variable a specification does not use
Unused == <<>>

\* the variables each specification leaves alone
restObj == <<arg, result, enumVars>>
restRT == <<call, result, enumVars>>
restArr == <<host, ser, des, call, ret, out, touched, enumVars>>
restPath == <<ser, des, call, ret, out, touched, enumVars>>
restEnum == <<call, ret, out, touched>>

\* list_signals has not been called
EnumIdle ==
    /\ num_variables = 0
    /\ names = <<>>
    /\ tag_index = 1
    /\ next_instance_id = <<1, 0, 0, 0>>
    /\ varinfos = <<>>
    /\ failure = ""
    /\ sent = <<>>
    /\ served = <<<<>>, <<>>>>

---------------------------------------------------------------------------
(* Bounds of the model *)

\* width of size_t in bits (64 in the build)
SizeBits == 9
\* largest buffer capacity
MaxCap == 3
\* longest span handed to write / read
MaxLen == 3
\* largest buffer capacity of the integer round trip (the widest integer has 8 bytes)
MaxIntCap == 9
\* most dimensions of an array, longest dimension, largest element size
MaxDims == 2
MaxDim == 34
MaxElemSize == 3
\* RequestContext: sizes of send_buffer and recv_buffer
SendBufferSize == 24
RecvBufferSize == 80
\* largest count the controller reports, most instances in a page, most
\* non-empty pages of one enumeration
MaxCount == 2
MaxPageLen == 3
MaxPages == 2
\* most variables that list_signals is given in SpecCat
MaxVars == 2

SizeMod == 2 ^ SizeBits

Hosts == {"little", "big"}

---------------------------------------------------------------------------
(* Helpers on byte sequences *)

Reverse(s) == [i \in 1..Len(s) |-> s[Len(s) + 1 - i]]

Zeros(n) == [i \in 1..n |-> 0]

\* sequences over alphabet A of length exactly n
SeqsOfLen(A, n) == [1..n -> A]

\* sequences over alphabet A of length at most n
SeqsUpTo(A, n) == UNION {SeqsOfLen(A, k) : k \in 0..n}

\* memcpy(dst + at, src, Len(src)), at counted from 0
Memcpy(dst, at, src) ==
    [i \in 1..Len(dst) |->
        IF i > at /\ i <= at + Len(src) THEN src[i - at] ELSE dst[i]]

\* F applied to the value of e
Bind(e, F(_)) == CHOOSE y \in {F(x) : x \in {e}} : TRUE

---------------------------------------------------------------------------
(* serialization.h: to_endian *)

\* __builtin_bswap16/32/64 on a value of that width (identity on one byte)
bswap(v) == Reverse(v)

\* to_endian that never swaps (right on a little-endian host only)
to_endian_NoSwap(v, endianess, native) == v

\* to_endian<Endianess>(v) compiled for a host of the given native order
to_endian(v, endianess, native) ==
    IF endianess = native THEN v ELSE bswap(v)

\* the bytes of an object in memory (reinterpret_cast<const uint8_t *>(&obj))
ObjectBytes(v, native) == IF native = "little" THEN v ELSE Reverse(v)

\* the value of the object whose memory holds these bytes
ObjectValue(bytes, native) == IF native = "little" THEN bytes ELSE Reverse(bytes)

---------------------------------------------------------------------------
(* serialization.h: FixedBufferSerializer *)

\* FixedBufferSerializer(buffer): cursor 0, no error
NewSerializer(buffer, endianess) ==
    [buffer |-> buffer, cursor |-> 0, has_error |-> FALSE, endianess |-> endianess]

\* can_write that reports the overflow and does not keep it
can_write_NotSticky(s, num) ==
    IF s.has_error
    THEN [s |-> s, ok |-> FALSE]
    ELSE IF (s.cursor + num) % SizeMod > Len(s.buffer)
         THEN [s |-> s, ok |-> FALSE]
         ELSE [s |-> s, ok |-> TRUE]

can_write(s, num) ==
    IF s.has_error
    THEN [s |-> s, ok |-> FALSE]
    ELSE IF (s.cursor + num) % SizeMod > Len(s.buffer)
         THEN [s |-> [s EXCEPT !.has_error = TRUE], ok |-> FALSE]
         ELSE [s |-> s, ok |-> TRUE]

Ser_write(s, src) ==
    LET c == can_write(s, Len(src)) IN
    IF ~c.ok
    THEN [s |-> c.s, ret |-> FALSE]
    ELSE [s |-> [c.s EXCEPT !.buffer = Memcpy(c.s.buffer, c.s.cursor, src),
                            !.cursor = (c.s.cursor + Len(src)) % SizeMod],
          ret |-> TRUE]

Ser_advance(s, off) ==
    LET c == can_write(s, off) IN
    IF ~c.ok
    THEN [s |-> c.s, ret |-> FALSE]
    ELSE [s |-> [c.s EXCEPT !.cursor = (c.s.cursor + off) % SizeMod],
          ret |-> TRUE]

\* reset that clears the error and keeps the cursor
Ser_reset_KeepCursor(s) == [s EXCEPT !.has_error = FALSE]

Ser_reset(s) == [s EXCEPT !.cursor = 0, !.has_error = FALSE]

\* _buffer.subspan(0, _cursor)
serialized_buffer(s) == SubSeq(s.buffer, 1, s.cursor)

get_remaining_bytes(s) == (Len(s.buffer) - s.cursor) % SizeMod

\* serialize(Serializer, integral): to_endian, then serialize_object
serialize_int(s, v, native) ==
    Ser_write(s, ObjectBytes(to_endian(v, s.endianess, native), native))

---------------------------------------------------------------------------
(* serialization.h: FixedBufferDeserializer *)

NewDeserializer(buffer, endianess) ==
    [buffer |-> buffer, cursor |-> 0, has_error |-> FALSE, endianess |-> endianess]

\* can_read with the serializer's test, whose sum wraps
can_read_SumWraps(d, num) ==
    IF d.has_error
    THEN [d |-> d, ok |-> FALSE]
    ELSE IF (d.cursor + num) % SizeMod > Len(d.buffer)
         THEN [d |-> [d EXCEPT !.has_error = TRUE], ok |-> FALSE]
         ELSE [d |-> d, ok |-> TRUE]

can_read(d, num) ==
    IF d.has_error
    THEN [d |-> d, ok |-> FALSE]
    ELSE IF (Len(d.buffer) - d.cursor) % SizeMod < num
         THEN [d |-> [d EXCEPT !.has_error = TRUE], ok |-> FALSE]
         ELSE [d |-> d, ok |-> TRUE]

\* read(dst) with dst holding the bytes dst0 beforehand: the new object, the
\* result, dst afterwards and the buffer indices (from 0) memcpy has read
Des_read(d, dst0) ==
    LET n == Len(dst0)
        c == can_read(d, n) IN
    IF ~c.ok
    THEN [d |-> c.d, ret |-> FALSE, dst |-> dst0, idx |-> {}]
    ELSE [d |-> [c.d EXCEPT !.cursor = (c.d.cursor + n) % SizeMod],
          ret |-> TRUE,
          dst |-> [i \in 1..n |-> c.d.buffer[c.d.cursor + i]],
          idx |-> {c.d.cursor + i - 1 : i \in 1..n}]

Des_advance(d, off) ==
    LET c == can_read(d, off) IN
    IF ~c.ok
    THEN [d |-> c.d, ret |-> FALSE]
    ELSE [d |-> [c.d EXCEPT !.cursor = (c.d.cursor + off) % SizeMod],
          ret |-> TRUE]

Des_reset(d) == [d EXCEPT !.cursor = 0, !.has_error = FALSE]

\* _buffer.subspan(_cursor)
remaining_buffer(d) == SubSeq(d.buffer, d.cursor + 1, Len(d.buffer))

\* serialize(Deserializer, integral &v) on a v that holds v0: serialize_object
\* reads into the memory of v, then v = to_endian(v)
deserialize_int(d, v0, native) ==
    LET r == Des_read(d, ObjectBytes(v0, native)) IN
    [d |-> r.d, ret |-> r.ret, idx |-> r.idx,
     v |-> to_endian(ObjectValue(r.dst, native), d.endianess, native)]

\* read<T>(des) for an integral T of w bytes: T v{}; serialize(des, v); return v
read_int(d, w, native) == deserialize_int(d, Zeros(w), native)

\* read_string(des, len): str.resize(len) value-initialises, then read
read_string(d, len) ==
    LET r == Des_read(d, Zeros(len)) IN
    [d |-> r.d, ret |-> r.ret, idx |-> r.idx, v |-> r.dst]

---------------------------------------------------------------------------
(* Spec: one serializer or one deserializer under arbitrary calls *)

\* bytes a caller writes, bytes a receive buffer holds
SampleBytes == {1, 255}

\* a receive buffer of L bytes, all different and none zero
ReceivedBytes(L) == [i \in 1..L |-> 16 * i + 1]

\* arguments of advance(size_t): small ones and ones near the largest size_t
AdvanceArgs == (0..MaxLen) \cup {SizeMod - k : k \in 1..MaxLen}

IntWidths == {1, 2, 4, 8}

NoCall == [obj |-> "none", op |-> "none", n |-> 0, err0 |-> FALSE]

Init ==
    /\ host \in Hosts
    /\ pc \in {"ser", "des"}
    /\ \E c \in 0..MaxCap :
          ser = NewSerializer(Zeros(IF pc = "ser" THEN c ELSE 0), "little")
    /\ \E L \in 0..MaxCap :
          des = NewDeserializer(IF pc = "des" THEN ReceivedBytes(L) ELSE <<>>, "little")
    /\ call = NoCall
    /\ ret = TRUE
    /\ out = <<>>
    /\ touched = {}
    /\ EnumIdle
    /\ arg = Unused
    /\ result = Unused

SerWrite ==
    /\ pc = "ser"
    /\ \E src \in SeqsUpTo(SampleBytes, MaxLen) :
          LET r == Ser_write(ser, src) IN
          /\ ser' = r.s
          /\ ret' = r.ret
          /\ call' = [obj |-> "ser", op |-> "write", n |-> Len(src),
                      err0 |-> ser.has_error]
    /\ UNCHANGED <<host, pc, des, out, touched>>
    /\ UNCHANGED restObj

SerAdvance ==
    /\ pc = "ser"
    /\ \E off \in AdvanceArgs :
          LET r == Ser_advance(ser, off) IN
          /\ ser' = r.s
          /\ ret' = r.ret
          /\ call' = [obj |-> "ser", op |-> "advance", n |-> off,
                      err0 |-> ser.has_error]
    /\ UNCHANGED <<host, pc, des, out, touched>>
    /\ UNCHANGED restObj

SerReset ==
    /\ pc = "ser"
    /\ ser' = Ser_reset(ser)
    /\ call' = [obj |-> "ser", op |-> "reset", n |-> 0, err0 |-> ser.has_error]
    /\ UNCHANGED <<host, pc, des, ret, out, touched>>
    /\ UNCHANGED restObj

\* read(dst) into a caller's zeroed span of n bytes
DesRead ==
    /\ pc = "des"
    /\ \E n \in 0..MaxLen :
          LET r == Des_read(des, Zeros(n)) IN
          /\ des' = r.d
          /\ ret' = r.ret
          /\ out' = r.dst
          /\ touched' = touched \cup r.idx
          /\ call' = [obj |-> "des", op |-> "read", n |-> n,
                      err0 |-> des.has_error]
    /\ UNCHANGED <<host, pc, ser>>
    /\ UNCHANGED restObj

\* read<T>(des) for an unsigned T of w bytes
DesReadInt ==
    /\ pc = "des"
    /\ \E w \in IntWidths :
          LET r == read_int(des, w, host) IN
          /\ des' = r.d
          /\ ret' = r.ret
          /\ out' = r.v
          /\ touched' = touched \cup r.idx
          /\ call' = [obj |-> "des", op |-> "read_int", n |-> w,
                      err0 |-> des.has_error]
    /\ UNCHANGED <<host, pc, ser>>
    /\ UNCHANGED restObj

DesAdvance ==
    /\ pc = "des"
    /\ \E off \in AdvanceArgs :
          LET r == Des_advance(des, off) IN
          /\ des' = r.d
          /\ ret' = r.ret
          /\ call' = [obj |-> "des", op |-> "advance", n |-> off,
                      err0 |-> des.has_error]
    /\ UNCHANGED <<host, pc, ser, out, touched>>
    /\ UNCHANGED restObj

DesReset ==
    /\ pc = "des"
    /\ des' = Des_reset(des)
    /\ call' = [obj |-> "des", op |-> "reset", n |-> 0, err0 |-> des.has_error]
    /\ UNCHANGED <<host, pc, ser, ret, out, touched>>
    /\ UNCHANGED restObj

Next ==
    \/ SerWrite
    \/ SerAdvance
    \/ SerReset
    \/ DesRead
    \/ DesReadInt
    \/ DesAdvance
    \/ DesReset

Spec == Init /\ [][Next]_vars

---------------------------------------------------------------------------
(* Claims about the serializer and the deserializer, under Spec *)

\* C1: a write of k bytes with cursor + k > capacity returns false, sets the
\* error flag, copies nothing and leaves the cursor; once the flag is set every
\* write or advance (one that would fit and a zero-length one included) returns
\* false and changes neither cursor nor buffer, reset() being the only way out;
\* a write of exactly the remaining capacity succeeds.
C1_WriteStep ==
    /\ (call'.op = "write" /\ ser.cursor + call'.n > Len(ser.buffer))
          => /\ ret' = FALSE
             /\ ser'.has_error
             /\ ser'.buffer = ser.buffer
             /\ ser'.cursor = ser.cursor
    /\ (ser.has_error /\ call'.op \in {"write", "advance"})
          => /\ ret' = FALSE
             /\ ser' = ser
    /\ (call'.op = "write" /\ ~ser.has_error
            /\ call'.n = Len(ser.buffer) - ser.cursor)
          => /\ ret' = TRUE
             /\ ~ser'.has_error
             /\ ser'.cursor = Len(ser.buffer)

C1_BoundedWrite == [][pc = "ser" => C1_WriteStep]_vars

\* a write that overflowed a partly filled buffer has just set the error flag
C1_Witness ==
    /\ pc = "ser"
    /\ call.op = "write"
    /\ ~call.err0
    /\ ser.has_error
    /\ ser.cursor > 0
    /\ ser.cursor + call.n > Len(ser.buffer)
    /\ ret = FALSE

\* C2: the deserializer's cursor stays within 0..L and memcpy reads no index
\* >= L; a read or advance of n > L - cursor bytes sets the error flag and
\* leaves the cursor; a read<T> issued with the error flag set returns the zero
\* value of T and does not move the cursor.
C2_Bounds ==
    /\ des.cursor >= 0
    /\ des.cursor <= Len(des.buffer)
    /\ \A i \in touched : i >= 0 /\ i < Len(des.buffer)

C2_ReadStep ==
    /\ (call'.op \in {"read", "read_int", "advance"}
            /\ call'.n > Len(des.buffer) - des.cursor)
          => /\ des'.has_error
             /\ des'.cursor = des.cursor
             /\ ret' = FALSE
    /\ (des.has_error /\ call'.op = "read_int")
          => /\ out' = Zeros(call'.n)
             /\ des'.cursor = des.cursor

C2_BoundedRead == [](pc = "des" => C2_Bounds) /\ [][pc = "des" => C2_ReadStep]_vars

\* an advance by nearly the largest size_t on a partly read buffer has just set
\* the error flag
C2_Witness ==
    /\ pc = "des"
    /\ call.op = "advance"
    /\ call.n >= SizeMod - MaxLen
    /\ ~call.err0
    /\ des.has_error
    /\ des.cursor > 0
    /\ touched # {}

\* C4: only reset() clears an error flag; reset() sets cursor to 0 and error to
\* false, serialized_buffer() is then empty and a write that fits the capacity
\* succeeds again.
C4_ResetStep ==
    /\ (ser.has_error /\ ~ser'.has_error) => call'.op = "reset"
    /\ (des.has_error /\ ~des'.has_error) => call'.op = "reset"
    /\ (call'.obj = "ser" /\ call'.op = "reset")
          => /\ ser'.cursor = 0
             /\ ~ser'.has_error
             /\ serialized_buffer(ser') = <<>>
    /\ (call'.obj = "des" /\ call'.op = "reset")
          => /\ des'.cursor = 0
             /\ ~des'.has_error
    /\ (call.obj = "ser" /\ call.op = "reset" /\ call'.op = "write"
            /\ call'.n <= Len(ser.buffer))
          => /\ ret' = TRUE
             /\ ser'.cursor = call'.n

C4_OnlyResetClears == [][C4_ResetStep]_vars

\* reset() has just cleared the error of a serializer that holds written bytes
C4_Witness ==
    /\ pc = "ser"
    /\ call.op = "reset"
    /\ call.err0
    /\ ~ser.has_error
    /\ ser.cursor = 0
    /\ \E i \in 1..Len(ser.buffer) : ser.buffer[i] # 0

---------------------------------------------------------------------------
(* SpecRT: serialize(x) into a serializer, then read<T> over the written bytes *)

Endians == {"little", "big"}

\* unsigned values of w bytes: every one over three digits for w <= 2, and for
\* the wider ones zero, the largest, one, the top bit, and all digits different
IntValues(w) ==
    IF w <= 2
    THEN SeqsOfLen({0, 1, 255}, w)
    ELSE {Zeros(w),
          [i \in 1..w |-> 255],
          [i \in 1..w |-> IF i = 1 THEN 1 ELSE 0],
          [i \in 1..w |-> IF i = w THEN 128 ELSE 0],
          [i \in 1..w |-> 16 * i + 1]}

\* a serializer over c bytes, of which p are already taken by advance(p), and
\* the value x of width w to write
InitRT ==
    /\ host \in Hosts
    /\ pc = "encode"
    /\ \E w \in IntWidths, c \in 0..MaxIntCap, e \in Endians :
          \E x \in IntValues(w), p \in 0..c :
             /\ ser = Ser_advance(NewSerializer(Zeros(c), e), p).s
             /\ arg = [x |-> x, w |-> w, p |-> p]
    /\ des = NewDeserializer(<<>>, "little")
    /\ call = NoCall
    /\ ret = TRUE
    /\ out = <<>>
    /\ touched = {}
    /\ EnumIdle
    /\ result = Unused

\* serialize(ser, x)
RT_Encode ==
    /\ pc = "encode"
    /\ LET r == serialize_int(ser, arg.x, host) IN
          /\ ser' = r.s
          /\ ret' = r.ret
    /\ pc' = "attach"
    /\ UNCHANGED <<host, des, out, touched, arg>>
    /\ UNCHANGED restRT

\* FixedBufferDeserializer over the bytes serialize has written, or over the
\* first t of them
RT_Attach ==
    /\ pc = "attach"
    /\ \E t \in 0..(ser.cursor - arg.p) :
          des' = NewDeserializer(SubSeq(ser.buffer, arg.p + 1, arg.p + t),
                                 ser.endianess)
    /\ pc' = "decode"
    /\ UNCHANGED <<host, ser, ret, out, touched, arg>>
    /\ UNCHANGED restRT

\* read<T>(des)
RT_Decode ==
    /\ pc = "decode"
    /\ LET r == read_int(des, arg.w, host) IN
          /\ des' = r.d
          /\ out' = r.v
          /\ touched' = touched \cup r.idx
    /\ pc' = "done"
    /\ UNCHANGED <<host, ser, ret, arg>>
    /\ UNCHANGED restRT

NextRT ==
    \/ RT_Encode
    \/ RT_Attach
    \/ RT_Decode

SpecRT == InitRT /\ [][NextRT]_vars

\* C3: an unsigned x of 1, 2, 4 or 8 bytes written by a little-endian serializer
\* and read with the same width by a little-endian deserializer over the written
\* bytes comes back as x, the written bytes being x's bytes least significant
\* first; the serializer's error flag is clear iff its buffer had at least w
\* bytes left, and the deserializer's iff its buffer had at least w bytes.
C3_RoundTrip ==
    (pc = "done" /\ ser.endianess = "little") =>
        /\ ~ser.has_error <=> Len(ser.buffer) - arg.p >= arg.w
        /\ ~des.has_error <=> Len(des.buffer) >= arg.w
        /\ ~ser.has_error =>
              /\ ser.cursor = arg.p + arg.w
              /\ SubSeq(ser.buffer, arg.p + 1, arg.p + arg.w) = arg.x
        /\ (~ser.has_error /\ ~des.has_error) => out = arg.x

\* an 8-byte value with all bytes different went through a little-endian
\* serializer and deserializer on a big-endian host and came back
C3_Witness ==
    /\ pc = "done"
    /\ host = "big"
    /\ ser.endianess = "little"
    /\ arg.w = 8
    /\ arg.p > 0
    /\ arg.x = [i \in 1..8 |-> 16 * i + 1]
    /\ ~ser.has_error
    /\ ~des.has_error
    /\ out = arg.x

---------------------------------------------------------------------------
(* omcon.cpp: DataType, get_array_size *)

\* enum class DataType : uint8_t (omron.h): the enumerators named in to_string
\* and is_valid_value, with the type codes of the Omron CIP documentation
DataType ==
    [Undefined |-> 0, Date |-> 8, Time |-> 9, DateAndTime |-> 10,
     TimeOfDay |-> 11, Bool |-> 193, Sint |-> 194, Int |-> 195, Dint |-> 196,
     Lint |-> 197, Usint |-> 198, Uint |-> 199, Udint |-> 200, Ulint |-> 201,
     Real |-> 202, Lreal |-> 203, String |-> 208, Byte |-> 209, Word |-> 210,
     Dword |-> 211, Lword |-> 212, Time2 |-> 219,
     AbbreviatedStructure |-> 160, Structure |-> 162, Array |-> 163]

\* the values of the enumerators
DataTypeValues == {DataType[f] : f \in DOMAIN DataType}

\* the loop over the dimensions: dim_product *= dim, in size_t
RECURSIVE dim_product(_)
dim_product(dimensions) ==
    IF dimensions = <<>>
    THEN 1
    ELSE (dim_product(SubSeq(dimensions, 1, Len(dimensions) - 1))
             * dimensions[Len(dimensions)]) % SizeMod

\* get_array_size with remainder > 8 for remainder >= 8
get_array_size_Gt8(dimensions, element_type, element_size) ==
    LET P == dim_product(dimensions)
        remainder == P % 16
        full_bytes == P \div 8 IN
    IF element_type = DataType.Bool
    THEN IF remainder > 8 THEN (full_bytes + 1) % SizeMod
         ELSE IF remainder > 0 THEN (full_bytes + 2) % SizeMod
         ELSE full_bytes
    ELSE (P * element_size) % SizeMod

\* get_array_size that rounds a Bool array up to bytes, not to 16-bit words
get_array_size_Bytes(dimensions, element_type, element_size) ==
    LET P == dim_product(dimensions)
        remainder == P % 8
        full_bytes == P \div 8 IN
    IF element_type = DataType.Bool
    THEN IF remainder > 0 THEN (full_bytes + 1) % SizeMod ELSE full_bytes
    ELSE (P * element_size) % SizeMod

get_array_size(dimensions, element_type, element_size) ==
    LET P == dim_product(dimensions)
        remainder == P % 16
        full_bytes == P \div 8 IN
    IF element_type = DataType.Bool
    THEN IF remainder >= 8 THEN (full_bytes + 1) % SizeMod
         ELSE IF remainder > 0 THEN (full_bytes + 2) % SizeMod
         ELSE full_bytes
    ELSE (P * element_size) % SizeMod

---------------------------------------------------------------------------
(* SpecArr: get_array_size on bounded inputs *)

\* the element types the function is applied to: Bool and two others
ArrElementTypes == {DataType.Bool, DataType.Dint, DataType.Lreal}

\* non-empty sequences of positive dimensions
DimSeqs == UNION {SeqsOfLen(1..MaxDim, k) : k \in 1..MaxDims}

InitArr ==
    /\ pc = "call"
    /\ \E dims \in DimSeqs, t \in ArrElementTypes, es \in 1..MaxElemSize :
          arg = [dimensions |-> dims, element_type |-> t, element_size |-> es]
    /\ result = Unused
    /\ host = "little"
    /\ ser = NewSerializer(<<>>, "little")
    /\ des = NewDeserializer(<<>>, "little")
    /\ call = NoCall
    /\ ret = TRUE
    /\ out = <<>>
    /\ touched = {}
    /\ EnumIdle

Arr_Call ==
    /\ pc = "call"
    /\ result' = get_array_size(arg.dimensions, arg.element_type, arg.element_size)
    /\ pc' = "done"
    /\ UNCHANGED arg
    /\ UNCHANGED restArr

NextArr == Arr_Call

SpecArr == InitArr /\ [][NextArr]_vars

\* the product of the dimensions as a number (not in size_t)
RECURSIVE Product(_)
Product(dims) ==
    IF dims = <<>> THEN 1 ELSE Head(dims) * Product(Tail(dims))

CeilDiv(a, b) == (a + b - 1) \div b

\* the size the claims give for an array of P elements
ClaimedArraySize(P, element_type, element_size) ==
    IF element_type # DataType.Bool THEN P * element_size
    ELSE IF P % 16 = 0 THEN P \div 8
    ELSE IF P % 16 >= 8 THEN (P \div 8) + 1
    ELSE (P \div 8) + 2

\* C5 as stated: with P the product of the dimensions, get_array_size returns
\* P * element_size for a non-Bool element type, and for Bool P div 8, plus 1
\* when 8 <= P mod 16 < 16, plus 2 when 0 < P mod 16 < 8.
C5_AsStated ==
    pc = "done" =>
        result = ClaimedArraySize(Product(arg.dimensions), arg.element_type,
                                  arg.element_size)

\* C5: the same with the arithmetic of size_t: P is the product of the
\* dimensions modulo 2^SizeBits, and the non-Bool size is P * element_size
\* modulo 2^SizeBits; the Bool size does not depend on element_size.
C5_ArraySize ==
    pc = "done" =>
        result = ClaimedArraySize(Product(arg.dimensions) % SizeMod,
                                  arg.element_type, arg.element_size) % SizeMod

\* the size of a Bool array of 17 elements has been computed as 4
C5_Witness ==
    /\ pc = "done"
    /\ arg.element_type = DataType.Bool
    /\ arg.dimensions = <<17>>
    /\ arg.element_size = 1
    /\ result = 4

\* C6 as stated: for a Bool array of P = product(dims) >= 1 elements the size
\* is even and equals 2 * ceil(P / 16).
C6_AsStated ==
    (pc = "done" /\ arg.element_type = DataType.Bool) =>
        LET P == Product(arg.dimensions) IN
        /\ result % 2 = 0
        /\ result = 2 * CeilDiv(P, 16)

\* C6: with P the product of the dimensions modulo 2^SizeBits, the size of a
\* Bool array is even and equals 2 * ceil(P / 16); this is ceil(P / 8) rounded
\* up to an even number.
C6_WholeWords ==
    (pc = "done" /\ arg.element_type = DataType.Bool) =>
        LET P == Product(arg.dimensions) % SizeMod
            bytes == CeilDiv(P, 8) IN
        /\ result % 2 = 0
        /\ result = 2 * CeilDiv(P, 16)
        /\ result = bytes + (bytes % 2)

\* the size of a 3 x 11 Bool array (33 elements) has been computed as 6
C6_Witness ==
    /\ pc = "done"
    /\ arg.element_type = DataType.Bool
    /\ arg.dimensions = <<3, 11>>
    /\ result = 6

---------------------------------------------------------------------------
(* omcon.cpp: variable_request_path *)

\* name.size() must stay below this (the assert of variable_request_path)
NameLimit == 256

\* static_cast<uint8_t>(n), as a value of one byte
U8(n) == <<n % 256>>

\* variable_request_path whose buffer has no room for the padding byte
variable_request_path_NoPad(name, native) ==
    LET n == Len(name)
        buf == Zeros((2 + n) % SizeMod)
        s0 == NewSerializer(buf, "little")
        s1 == Ser_write(s0, <<145>>).s
        s2 == serialize_int(s1, U8(n), native).s
        s3 == Ser_write(s2, name).s
        s4 == IF n % 2 # 0 THEN Ser_write(s3, <<0>>).s ELSE s3 IN
    [buf |-> s4.buffer, has_error |-> s4.has_error]

\* the returned vector buf, and the has_error() the final assert looks at
variable_request_path(name, native) ==
    LET n == Len(name)
        padded_length == (n + (n % 2)) % SizeMod
        buf == Zeros((2 + padded_length) % SizeMod) IN
    Bind(Ser_write(NewSerializer(buf, "little"), <<145>>).s, LAMBDA s1 :   \* "\x91"
    Bind(serialize_int(s1, U8(n), native).s, LAMBDA s2 :
    Bind(Ser_write(s2, name).s, LAMBDA s3 :
    Bind(IF n % 2 # 0 THEN Ser_write(s3, <<0>>).s ELSE s3, LAMBDA s4 :
        [buf |-> s4.buffer, has_error |-> s4.has_error]))))

---------------------------------------------------------------------------
(* SpecPath: variable_request_path on names of every accepted length *)

\* a name of n bytes: letters, or n times the byte 0xFF
NameOf(n, k) == [i \in 1..n |-> IF k = 0 THEN 65 + (i % 26) ELSE 255]

InitPath ==
    /\ pc = "call"
    /\ host \in Hosts
    /\ \E n \in 0..(NameLimit - 1), k \in {0, 1} : arg = [name |-> NameOf(n, k)]
    /\ result = Unused
    /\ ser = NewSerializer(<<>>, "little")
    /\ des = NewDeserializer(<<>>, "little")
    /\ call = NoCall
    /\ ret = TRUE
    /\ out = <<>>
    /\ touched = {}
    /\ EnumIdle

Path_Call ==
    /\ pc = "call"
    /\ result' = variable_request_path(arg.name, host)
    /\ pc' = "done"
    /\ UNCHANGED <<host, arg>>
    /\ UNCHANGED restPath

NextPath == Path_Call

SpecPath == InitPath /\ [][NextPath]_vars

\* C7: for a name of n < 256 bytes variable_request_path returns 0x91, n, the
\* n bytes of the name and one 0x00 iff n is odd; the length 2 + n + (n mod 2)
\* is even, and an even n gets no trailing zero.
C7_RequestPath ==
    pc = "done" =>
        LET n == Len(arg.name)
            path == result.buf IN
        /\ ~result.has_error
        /\ path = <<145, n>> \o arg.name \o (IF n % 2 = 1 THEN <<0>> ELSE <<>>)
        /\ Len(path) = 2 + n + (n % 2)
        /\ Len(path) % 2 = 0

\* the path of a name of 255 bytes, the longest one, has been built
C7_Witness ==
    /\ pc = "done"
    /\ Len(arg.name) = NameLimit - 1
    /\ Len(result.buf) = NameLimit + 2
    /\ result.buf[2] = 255
    /\ result.buf[NameLimit + 2] = 0

---------------------------------------------------------------------------
(* Numbers and their digits *)

\* the number a little-endian numeral stands for
RECURSIVE Val(_)
Val(v) == IF v = <<>> THEN 0 ELSE v[1] + 256 * Val(Tail(v))

\* the numeral of w digits of a number
RECURSIVE Digits(_, _)
Digits(n, w) == IF w = 0 THEN <<>> ELSE <<n % 256>> \o Digits(n \div 256, w - 1)

\* v + 1 in the width of v (unsigned, wrapping)
RECURSIVE Inc(_)
Inc(v) ==
    IF v = <<>> THEN <<>>
    ELSE IF v[1] = 255 THEN <<0>> \o Inc(Tail(v))
    ELSE <<v[1] + 1>> \o Tail(v)

\* v - 1 in the width of v (unsigned, wrapping)
RECURSIVE Dec(_)
Dec(v) ==
    IF v = <<>> THEN <<>>
    ELSE IF v[1] = 0 THEN <<255>> \o Dec(Tail(v))
    ELSE <<v[1] - 1>> \o Tail(v)

RECURSIVE Add(_, _)
Add(v, n) == IF n = 0 THEN v ELSE Bind(Inc(v), LAMBDA w : Add(w, n - 1))

RECURSIVE Concat(_)
Concat(ss) == IF ss = <<>> THEN <<>> ELSE Head(ss) \o Concat(Tail(ss))

---------------------------------------------------------------------------
(* list_signals.cpp, omron.h: request encoding *)

\* address_request_path(class_id, instance_id): the vector buf of 6 bytes
\* (serialize_multi stops at the first write that fails)
address_request_path(class_id, instance_id, native) ==
    Bind(Ser_write(NewSerializer(Zeros(6), "little"), <<32>>), LAMBDA r1 :  \* "\x20"
    Bind(IF r1.ret THEN serialize_int(r1.s, <<class_id % 256>>, native) ELSE r1,
         LAMBDA r2 :
    Bind(IF r2.ret THEN Ser_write(r2.s, <<37, 0>>) ELSE r2, LAMBDA r3 :    \* "\x25\x00"
    Bind(IF r3.ret THEN serialize_int(r3.s, Digits(instance_id, 2), native) ELSE r3,
         LAMBDA r4 :
        r4.s.buffer))))

\* encode_get_attribute_all(ser, path) of omron.h: a fresh request holding the
\* service 0x01, the length of the path in words and the path
encode_get_attribute_all(s, path, native) ==
    Bind(path, LAMBDA p :
    Bind(Ser_write(Ser_reset(s), <<1>>).s, LAMBDA s1 :
    Bind(serialize_int(s1, U8(Len(p) \div 2), native).s, LAMBDA s2 :
        Ser_write(s2, p).s)))

\* list_signals.cpp: encode_get_attribute_all(ser, instance_id)
encode_get_attribute_all_instance(s, instance_id, native) ==
    encode_get_attribute_all(s, address_request_path(106, instance_id, native), native)

\* omcon.cpp: encode_get_attribute_all(ser, variable_name)
encode_get_attribute_all_name(s, variable_name, native) ==
    encode_get_attribute_all(s, variable_request_path(variable_name, native).buf, native)

\* TagType
TagSystem == 1
TagUser == 2

\* the tag types with User first
tag_types_UserFirst == <<TagUser, TagSystem>>

\* constexpr std::array tag_types{TagType::System, TagType::User}
tag_types == <<TagSystem, TagUser>>

\* encode_omron_get_all_instances without ser.reset()
encode_omron_get_all_instances_NoReset(s, next_id, tag_type, native) ==
    Bind(address_request_path(106, 0, native), LAMBDA request_path :
    Bind(Ser_write(s, <<95>>).s, LAMBDA s1 :                    \* "\x5F"
    Bind(serialize_int(s1, U8(Len(request_path) \div 2), native).s, LAMBDA s2 :
    Bind(Ser_write(s2, request_path).s, LAMBDA s3 :
    Bind(serialize_int(s3, next_id, native).s, LAMBDA s4 :
    Bind(Ser_write(s4, <<32, 0, 0, 0>>).s, LAMBDA s5 :
    Bind(serialize_int(s5, Digits(tag_type, 2), native).s, LAMBDA s6 :
        [s |-> s6, thrown |-> s6.has_error])))))))

\* encode_omron_get_all_instances: the serializer afterwards, and whether it throws
encode_omron_get_all_instances(s, next_id, tag_type, native) ==
    Bind(address_request_path(106, 0, native), LAMBDA request_path :
    Bind(Ser_write(Ser_reset(s), <<95>>).s, LAMBDA s1 :                    \* "\x5F"
    Bind(serialize_int(s1, U8(Len(request_path) \div 2), native).s, LAMBDA s2 :
    Bind(Ser_write(s2, request_path).s, LAMBDA s3 :
    Bind(serialize_int(s3, next_id, native).s, LAMBDA s4 :
    Bind(Ser_write(s4, <<32, 0, 0, 0>>).s, LAMBDA s5 :
    Bind(serialize_int(s5, Digits(tag_type, 2), native).s, LAMBDA s6 :
        [s |-> s6, thrown |-> s6.has_error])))))))

---------------------------------------------------------------------------
(* omron.h, omcon.cpp: CipResponse, RequestContext::request *)

\* CipResponse::decode: reply_service, a reserved byte, general_status, the
\* number of extended status words and that many words
CipResponse_decode(d, native) ==
    Bind(read_int(d, 1, native), LAMBDA r1 :
    Bind(Des_advance(r1.d, 1), LAMBDA r2 :
    Bind(read_int(r2.d, 1, native), LAMBDA r3 :
    Bind(read_int(r3.d, 1, native), LAMBDA r4 :
    Bind(Des_read(r4.d, Zeros(2 * Val(r4.v))), LAMBDA r5 :
        [d |-> r5.d,
         ok |-> ~r5.d.has_error,
         reply_service |-> Val(r1.v),
         general_status |-> Val(r3.v),
         extended_status |-> r5.dst])))))

\* request, had it kept the deserializer and only given it the new bytes
request_CarryOver(d, reply, native) ==
    IF reply.failed
    THEN [d |-> d, thrown |-> "transport"]
    ELSE IF reply.size > RecvBufferSize
    THEN [d |-> d, thrown |-> "buffer_too_small"]
    ELSE Bind([d EXCEPT !.buffer = SubSeq(reply.data, 1, reply.size)],
              LAMBDA d0 :
         Bind(CipResponse_decode(d0, native), LAMBDA cip :
             IF ~cip.ok THEN [d |-> cip.d, thrown |-> "cip_decode"]
             ELSE IF cip.general_status # 0 THEN [d |-> cip.d, thrown |-> "cip_status"]
             ELSE [d |-> cip.d, thrown |-> ""]))

\* RequestContext::request on what the transport delivers, reply = [failed, size,
\* data]: the deserializer afterwards and the exception thrown ("" for none)
request(d, reply, native) ==
    IF reply.failed
    THEN [d |-> d, thrown |-> "transport"]
    ELSE IF reply.size > RecvBufferSize
    THEN [d |-> d, thrown |-> "buffer_too_small"]
    ELSE Bind(NewDeserializer(SubSeq(reply.data, 1, reply.size), "little"),
              LAMBDA d0 :
         Bind(CipResponse_decode(d0, native), LAMBDA cip :
             IF ~cip.ok THEN [d |-> cip.d, thrown |-> "cip_decode"]
             ELSE IF cip.general_status # 0 THEN [d |-> cip.d, thrown |-> "cip_status"]
             ELSE [d |-> cip.d, thrown |-> ""]))

---------------------------------------------------------------------------
(* list_signals.cpp, omcon.cpp: decoding the replies *)

\* get_num_variables after rc.request(): the count and whether it throws
get_num_variables(d, native) ==
    Bind(Des_advance(d, 2), LAMBDA r1 :
    Bind(read_int(r1.d, 2, native), LAMBDA r2 :
        [d |-> r2.d, num |-> Val(r2.v), thrown |-> r2.d.has_error]))

\* decode_instance_data: the deserializer afterwards and the InstanceData
decode_instance_data(d, native) ==
    Bind(read_int(d, 4, native), LAMBDA r1 :
    Bind(read_int(r1.d, 2, native), LAMBDA r2 :
    Bind(Des_advance(r2.d, 2), LAMBDA r3 :
    Bind(Des_advance(r3.d, 4), LAMBDA r4 :
    Bind(read_int(r4.d, 1, native), LAMBDA r5 :
    Bind(Val(r2.v), LAMBDA instance_data_len :
    Bind(Val(r5.v), LAMBDA name_len :
    Bind(read_string(r5.d, name_len), LAMBDA r6 :
        [d |-> IF instance_data_len > 2 + 4 + 1 + name_len
               THEN Des_advance(r6.d, instance_data_len - 2 - 4 - 1 - name_len).d
               ELSE r6.d,
         id |-> r1.v, name |-> r6.v]))))))))

\* the cursor after an instance with this id, without the + 1
next_after_SameId(id) == id

\* next_instance_id = instance_data.id + 1, in uint32_t
next_after(id) == Inc(id)

\* the for loop over the instances of one page, from instance i on
RECURSIVE decode_instances(_, _, _, _, _, _)
decode_instances(d, i, num_instances, nms, next_id, native) ==
    IF i >= num_instances
    THEN [d |-> d, names |-> nms, next_instance_id |-> next_id, thrown |-> FALSE]
    ELSE Bind(decode_instance_data(d, native), LAMBDA instance_data :
         IF instance_data.d.has_error
         THEN [d |-> instance_data.d, names |-> nms, next_instance_id |-> next_id,
               thrown |-> TRUE]
         ELSE Bind(Append(nms, instance_data.name), LAMBDA pushed :
              Bind(next_after(instance_data.id), LAMBDA next :
                  decode_instances(instance_data.d, i + 1, num_instances,
                                   pushed, next, native))))

\* one pass of the while loop after rc.request(): the header, then the
\* instances; brk says that the loop is left
decode_page(d, nms, next_id, native) ==
    Bind(read_int(d, 2, native), LAMBDA r1 :
    Bind(Des_advance(r1.d, 2), LAMBDA r2 :
    Bind(Val(r1.v), LAMBDA num_instances :
        IF num_instances = 0
        THEN [d |-> r2.d, names |-> nms, next_instance_id |-> next_id,
              thrown |-> FALSE, brk |-> TRUE]
        ELSE [brk |-> FALSE]
             @@ decode_instances(r2.d, 0, num_instances, nms, next_id, native))))

\* num reads of a uint32_t
RECURSIVE read_u32s(_, _, _)
read_u32s(d, num, native) ==
    IF num = 0
    THEN [d |-> d, v |-> <<>>]
    ELSE Bind(read_int(d, 4, native), LAMBDA r :
         Bind(read_u32s(r.d, num - 1, native), LAMBDA rest :
             [d |-> rest.d, v |-> <<Val(r.v)>> \o rest.v]))

\* get_variable_info that leaves the size read from the wire in an array's size
get_variable_info_WireSize(d, name, native) ==
    Bind(read_int(d, 4, native), LAMBDA r1 :
    Bind(read_int(r1.d, 1, native), LAMBDA r2 :
    Bind(Val(r1.v), LAMBDA size :
    Bind(Val(r2.v), LAMBDA data_type :
        IF data_type = DataType.Array
        THEN Bind(read_int(r2.d, 1, native), LAMBDA r3 :
             Bind(read_int(r3.d, 1, native), LAMBDA r4 :
             Bind(Val(r4.v), LAMBDA num_dimensions :
             Bind(Des_advance(r4.d, 1), LAMBDA r5 :
             Bind(read_u32s(r5.d, num_dimensions, native), LAMBDA r6 :
             Bind(Des_advance(r6.d, 8), LAMBDA r7 :
             Bind(read_int(r7.d, 1, native), LAMBDA r8 :
             Bind(Des_advance(r8.d, 3), LAMBDA r9 :
             Bind(read_int(r9.d, 4, native), LAMBDA r10 :
             Bind(read_u32s(r10.d, num_dimensions, native), LAMBDA r11 :
             Bind([element_type |-> Val(r3.v), element_size |-> size,
                   dimensions |-> r6.v, start_indices |-> r11.v], LAMBDA arr :
                 [d |-> r11.d,
                  var |-> [name |-> name, data_type |-> data_type,
                           size |-> size,
                           array_info |-> <<arr>>],
                  thrown |-> r11.d.has_error])))))))))))
        ELSE [d |-> r2.d,
              var |-> [name |-> name, data_type |-> data_type, size |-> size,
                       array_info |-> <<>>],
              thrown |-> r2.d.has_error]))))

\* get_variable_info that throws on a type or element type byte that is no
\* enumerator
get_variable_info_KnownOnly(d, name, native) ==
    Bind(read_int(d, 4, native), LAMBDA r1 :
    Bind(read_int(r1.d, 1, native), LAMBDA r2 :
    Bind(Val(r1.v), LAMBDA size :
    Bind(Val(r2.v), LAMBDA data_type :
        IF data_type = DataType.Array
        THEN Bind(read_int(r2.d, 1, native), LAMBDA r3 :
             Bind(read_int(r3.d, 1, native), LAMBDA r4 :
             Bind(Val(r4.v), LAMBDA num_dimensions :
             Bind(Des_advance(r4.d, 1), LAMBDA r5 :
             Bind(read_u32s(r5.d, num_dimensions, native), LAMBDA r6 :
             Bind(Des_advance(r6.d, 8), LAMBDA r7 :
             Bind(read_int(r7.d, 1, native), LAMBDA r8 :
             Bind(Des_advance(r8.d, 3), LAMBDA r9 :
             Bind(read_int(r9.d, 4, native), LAMBDA r10 :
             Bind(read_u32s(r10.d, num_dimensions, native), LAMBDA r11 :
             Bind([element_type |-> Val(r3.v), element_size |-> size,
                   dimensions |-> r6.v, start_indices |-> r11.v], LAMBDA arr :
                 [d |-> r11.d,
                  var |-> [name |-> name, data_type |-> data_type,
                           size |-> get_array_size(arr.dimensions, arr.element_type,
                                                   arr.element_size),
                           array_info |-> <<arr>>],
                  thrown |-> r11.d.has_error \/ Val(r3.v) \notin DataTypeValues])))))))))))
        ELSE [d |-> r2.d,
              var |-> [name |-> name, data_type |-> data_type, size |-> size,
                       array_info |-> <<>>],
              thrown |-> r2.d.has_error \/ data_type \notin DataTypeValues]))))

\* get_variable_info after rc.request(): the VariableInfo (array_info holds
\* the ArrayInfo or nothing) and whether it throws
get_variable_info(d, name, native) ==
    Bind(read_int(d, 4, native), LAMBDA r1 :
    Bind(read_int(r1.d, 1, native), LAMBDA r2 :
    Bind(Val(r1.v), LAMBDA size :
    Bind(Val(r2.v), LAMBDA data_type :
        IF data_type = DataType.Array
        THEN Bind(read_int(r2.d, 1, native), LAMBDA r3 :
             Bind(read_int(r3.d, 1, native), LAMBDA r4 :
             Bind(Val(r4.v), LAMBDA num_dimensions :
             Bind(Des_advance(r4.d, 1), LAMBDA r5 :
             Bind(read_u32s(r5.d, num_dimensions, native), LAMBDA r6 :
             Bind(Des_advance(r6.d, 8), LAMBDA r7 :
             Bind(read_int(r7.d, 1, native), LAMBDA r8 :
             Bind(Des_advance(r8.d, 3), LAMBDA r9 :
             Bind(read_int(r9.d, 4, native), LAMBDA r10 :
             Bind(read_u32s(r10.d, num_dimensions, native), LAMBDA r11 :
             Bind([element_type |-> Val(r3.v), element_size |-> size,
                   dimensions |-> r6.v, start_indices |-> r11.v], LAMBDA arr :
                 [d |-> r11.d,
                  var |-> [name |-> name, data_type |-> data_type,
                           size |-> get_array_size(arr.dimensions, arr.element_type,
                                                   arr.element_size),
                           array_info |-> <<arr>>],
                  thrown |-> r11.d.has_error])))))))))))
        ELSE [d |-> r2.d,
              var |-> [name |-> name, data_type |-> data_type, size |-> size,
                       array_info |-> <<>>],
              thrown |-> r2.d.has_error]))))

---------------------------------------------------------------------------
(* omcon.cpp, list_signals.cpp: the catalog *)

HexDigits ==
    <<"0", "1", "2", "3", "4", "5", "6", "7", "8", "9", "a", "b", "c", "d", "e", "f">>

\* fmt's {:x} of a uint8_t
Hex(n) ==
    IF n < 16 THEN HexDigits[n + 1]
    ELSE HexDigits[(n \div 16) + 1] \o HexDigits[(n % 16) + 1]

to_string(type) ==
    CASE type = DataType.Undefined -> "UNDEFINED"
      [] type = DataType.Date -> "DATE"
      [] type = DataType.Time -> "TIME"
      [] type = DataType.DateAndTime -> "DATE_AND_TIME"
      [] type = DataType.TimeOfDay -> "TIME_OF_DAY"
      [] type = DataType.Bool -> "BOOL"
      [] type = DataType.Sint -> "SINT"
      [] type = DataType.Int -> "INT"
      [] type = DataType.Dint -> "DINT"
      [] type = DataType.Lint -> "LINT"
      [] type = DataType.Usint -> "USINT"
      [] type = DataType.Uint -> "UINT"
      [] type = DataType.Udint -> "UDINT"
      [] type = DataType.Ulint -> "ULINT"
      [] type = DataType.Real -> "REAL"
      [] type = DataType.Lreal -> "LREAL"
      [] type = DataType.String -> "STRING"
      [] type = DataType.Byte -> "BYTE"
      [] type = DataType.Word -> "WORD"
      [] type = DataType.Dword -> "DWORD"
      [] type = DataType.Lword -> "LWORD"
      [] type = DataType.Time2 -> "TIME2"
      [] type = DataType.AbbreviatedStructure -> "ABBREVIATED_STRUCTURE"
      [] type = DataType.Structure -> "STRUCTURE"
      [] type = DataType.Array -> "ARRAY"
      [] OTHER -> "Unknown(" \o Hex(type) \o ")"

is_valid_value(data_type) ==
    data_type \in
        {DataType.Date, DataType.Time, DataType.DateAndTime, DataType.TimeOfDay,
         DataType.Bool, DataType.Sint, DataType.Int, DataType.Dint, DataType.Lint,
         DataType.Usint, DataType.Uint, DataType.Udint, DataType.Ulint,
         DataType.Real, DataType.Lreal, DataType.String, DataType.Byte,
         DataType.Word, DataType.Dword, DataType.Lword, DataType.Time2,
         DataType.AbbreviatedStructure, DataType.Structure, DataType.Array}

\* the filter without its two tests for structures
include_signal_data_type_in_list_NoStructure(data_type) ==
    is_valid_value(data_type)

include_signal_data_type_in_list(data_type) ==
    IF ~is_valid_value(data_type) THEN FALSE
    ELSE IF data_type = DataType.Structure THEN FALSE
    ELSE IF data_type = DataType.AbbreviatedStructure THEN FALSE
    ELSE TRUE

\* the json object with [start, dimension] pairs
symbol_of_Lengths(var) ==
    IF var.array_info = <<>>
    THEN [name |-> var.name, type |-> to_string(var.data_type),
          arrayDimensions |-> <<>>]
    ELSE LET array_info == var.array_info[1] IN
         [name |-> var.name, type |-> to_string(array_info.element_type),
          arrayDimensions |->
              <<[i \in 1..Len(array_info.dimensions) |->
                    <<array_info.start_indices[i], array_info.dimensions[i]>>]>>]

\* the json object of one variable that is not filtered out; arrayDimensions
\* holds the array of [start, start + dimension] pairs, or nothing when the
\* key is absent
symbol_of(var) ==
    IF var.array_info = <<>>
    THEN [name |-> var.name, type |-> to_string(var.data_type),
          arrayDimensions |-> <<>>]
    ELSE LET array_info == var.array_info[1] IN
         [name |-> var.name, type |-> to_string(array_info.element_type),
          arrayDimensions |->
              <<[i \in 1..Len(array_info.dimensions) |->
                    <<array_info.start_indices[i],
                      array_info.start_indices[i] + array_info.dimensions[i]>>]>>]

\* list_signals after get_variables_fast: the loop over vars
RECURSIVE list_signals(_)
list_signals(vs) ==
    IF vs = <<>> THEN <<>>
    ELSE LET var == Head(vs)
             rest == list_signals(Tail(vs)) IN
         IF ~include_signal_data_type_in_list(var.data_type) THEN rest
         ELSE IF var.array_info # <<>>
                 /\ ~include_signal_data_type_in_list(var.array_info[1].element_type)
         THEN rest
         ELSE <<symbol_of(var)>> \o rest

---------------------------------------------------------------------------
(* The controller behind the transport: what it answers to a request *)

\* a reply to service: the CIP envelope with general status 0, then the payload
CipReply(service, payload) == <<(service + 128) % 256, 0, 0, 0>> \o payload

\* a reply with general status 0x1F and the extended status 0x8007
CipErrorReply(service) == <<(service + 128) % 256, 0, 31, 1, 7, 128>>

\* where a response may be cut: inside the envelope, after the envelope of a
\* reply with no extended status, after two bytes of its payload, before its
\* last byte
CutPoints(resp) == {n \in {2, 4, 6, Len(resp) - 1} : n < Len(resp)}

\* what the transport delivers of the response resp: all of it, a prefix of
\* it, a size beyond the receive buffer, or a failure
Deliveries(resp) ==
    {[failed |-> FALSE, size |-> n, data |-> SubSeq(resp, 1, n)] :
        n \in CutPoints(resp) \cup {Len(resp)}}
    \cup {[failed |-> FALSE, size |-> RecvBufferSize + 1, data |-> resp],
          [failed |-> TRUE, size |-> 0, data |-> <<>>]}

\* the transport has delivered all of resp
Delivered(reply, resp) ==
    ~reply.failed /\ reply.size = Len(resp) /\ reply.data = resp

\* the fields of a Get_All_Instances request
RequestCursor(req) == SubSeq(req, 9, 12)
RequestTagType(req) == Val(SubSeq(req, 17, 18))

\* the name of a Get_Attribute_All request with a symbolic path
RequestName(req) == SubSeq(req, 5, 4 + req[4])

\* the name the controller gives to the instance id of a tag type: two or
\* three characters, different for different ids
InstanceName(tag_type, id) ==
    <<IF tag_type = TagSystem THEN 83 ELSE 85, 48 + (id[1] % 10)>>
    \o (IF id[1] % 2 = 1 THEN <<95>> ELSE <<>>)

\* the pages the controller may answer to the cursor: k instances, the ids
\* of all but the last following the cursor, the last id following them
\* ("dense"), leaving a gap ("gap"), lying before the cursor ("stale") or
\* being the largest id ("max")
PageModes(k) == IF k = 0 THEN {"dense"}
                ELSE IF k = 1 THEN {"dense", "stale", "max"}
                ELSE {"gap"}

LastId(cursor, k, mode) ==
    CASE mode = "dense" -> Add(cursor, k - 1)
      [] mode = "gap" -> Add(cursor, k + 1)
      [] mode = "stale" -> Dec(cursor)
      [] OTHER -> <<255, 255, 255, 255>>

Page(tag_type, cursor, k, mode) ==
    [i \in 1..k |->
        Bind(IF i < k THEN Add(cursor, i - 1) ELSE LastId(cursor, k, mode),
             LAMBDA id : [id |-> id, name |-> InstanceName(tag_type, id),
                          pad |-> IF mode = "gap" THEN 1 ELSE 0])]

\* one instance of a page on the wire
InstanceBytes(inst) ==
    inst.id \o Digits(2 + 4 + 1 + Len(inst.name) + inst.pad, 2) \o <<107, 0>>
    \o inst.id \o <<Len(inst.name)>> \o inst.name \o Zeros(inst.pad)

PagePayload(page) ==
    Digits(Len(page), 2) \o <<0, 0>>
    \o Concat([i \in 1..Len(page) |-> InstanceBytes(page[i])])

CountPayload(n) == <<1, 0>> \o Digits(n, 2)

\* the controller's variables: what a name is, told by its second character
Descriptors ==
    <<[data_type |-> DataType.Dint, size |-> 4],
      [data_type |-> DataType.Array, size |-> 1, element_type |-> DataType.Bool,
       dimensions |-> <<17>>, start_indices |-> <<0>>],
      [data_type |-> DataType.Structure, size |-> 12],
      [data_type |-> DataType.Array, size |-> 4, element_type |-> DataType.Dint,
       dimensions |-> <<2, 3>>, start_indices |-> <<1, 0>>],
      [data_type |-> 1, size |-> 2],
      [data_type |-> DataType.Array, size |-> 8, element_type |-> DataType.Lreal,
       dimensions |-> <<>>, start_indices |-> <<>>]>>

\* an array whose element type byte is no enumerator, for the names that
\* start with X
UnknownElementArray ==
    [data_type |-> DataType.Array, size |-> 2, element_type |-> 1,
     dimensions |-> <<3>>, start_indices |-> <<0>>]

DescriptorOf(name) == Descriptors[(name[2] % Len(Descriptors)) + 1]

InfoPayload(desc) ==
    IF desc.data_type = DataType.Array
    THEN Digits(desc.size, 4)
         \o <<desc.data_type, desc.element_type, Len(desc.dimensions), 0>>
         \o Concat([i \in 1..Len(desc.dimensions) |-> Digits(desc.dimensions[i], 4)])
         \o Zeros(8) \o <<0>> \o Zeros(3) \o <<9, 0, 0, 0>>
         \o Concat([i \in 1..Len(desc.dimensions) |->
                       Digits(desc.start_indices[i], 4)])
    ELSE Digits(desc.size, 4) \o <<desc.data_type>> \o Zeros(3)

\* the answer to an info request: the controller knows the names it has given
InfoResponse(req) ==
    LET name == RequestName(req) IN
    IF Len(name) >= 2 /\ name[1] \in {83, 85}
    THEN CipReply(1, InfoPayload(DescriptorOf(name)))
    ELSE IF Len(name) >= 2 /\ name[1] = 88
    THEN CipReply(1, InfoPayload(UnknownElementArray))
    ELSE CipErrorReply(1)

---------------------------------------------------------------------------
(* SpecEnum: list_signals against a controller, one step per request *)

InitEnum ==
    /\ host \in Hosts
    /\ pc = "count"
    /\ ser = NewSerializer(Zeros(SendBufferSize), "little")
    /\ des = NewDeserializer(Zeros(RecvBufferSize), "little")
    /\ result = Unused
    /\ call = NoCall
    /\ ret = TRUE
    /\ out = <<>>
    /\ touched = {}
    /\ arg = Unused
    /\ EnumIdle

\* the non-empty pages the controller has served
NonEmptyPages(t) == {j \in 1..Len(served[t]) : served[t][j] # <<>>}
PageLens ==
    IF Cardinality(NonEmptyPages(TagSystem)) + Cardinality(NonEmptyPages(TagUser))
           < MaxPages
    THEN 0..MaxPageLen ELSE {0}

\* get_num_variables
Enum_GetNumVariables ==
    /\ pc = "count"
    /\ \E s1 \in {encode_get_attribute_all_instance(ser, 0, host)} :
       \E n \in 0..MaxCount :
       \E resp \in {CipReply(1, CountPayload(n)), CipErrorReply(1)} :
       \E reply \in Deliveries(resp) :
       \E rq \in {request(des, reply, host)} :
       \E dec \in {get_num_variables(rq.d, host)} :
           /\ ser' = s1
           /\ sent' = Append(sent, serialized_buffer(s1))
           /\ arg' = reply
           /\ IF rq.thrown # ""
              THEN /\ pc' = "failed" /\ failure' = rq.thrown
                   /\ des' = rq.d /\ UNCHANGED num_variables
              ELSE IF dec.thrown
              THEN /\ pc' = "failed" /\ failure' = "decode"
                   /\ des' = dec.d /\ UNCHANGED num_variables
              ELSE /\ pc' = "page" /\ UNCHANGED failure
                   /\ des' = dec.d /\ num_variables' = dec.num
    /\ UNCHANGED <<host, names, tag_index, next_instance_id, varinfos, served,
                   result, restEnum>>

\* one pass of the while loop of get_variables_fast; leaving the loop of the
\* last tag type with num = 0 returns no variables
Enum_GetAllInstances ==
    /\ pc = "page"
    /\ \E enc \in {encode_omron_get_all_instances(ser, next_instance_id,
                                                    tag_types[tag_index], host)} :
       \E req \in {serialized_buffer(enc.s)} :
       IF enc.thrown
       THEN /\ ser' = enc.s /\ pc' = "failed" /\ failure' = "encode"
            /\ UNCHANGED <<des, sent, served, names, tag_index, next_instance_id, arg>>
       ELSE \E k \in PageLens : \E mode \in PageModes(k) :
            \E tag_type \in {RequestTagType(req)} :
            \E page \in {Page(tag_type, RequestCursor(req), k, mode)} :
            \E resp \in {CipReply(95, PagePayload(page)), CipErrorReply(95)} :
            \E reply \in Deliveries(resp) :
            \E rq \in {request(des, reply, host)} :
            \E pg \in {decode_page(rq.d, names, next_instance_id, host)} :
                /\ ser' = enc.s
                /\ sent' = Append(sent, req)
                /\ arg' = reply
                /\ served' = IF Delivered(reply, resp) /\ resp[3] = 0
                             THEN [served EXCEPT ![tag_type] = Append(@, page)]
                             ELSE served
                /\ IF rq.thrown # ""
                   THEN /\ pc' = "failed" /\ failure' = rq.thrown /\ des' = rq.d
                        /\ UNCHANGED <<names, tag_index, next_instance_id>>
                   ELSE IF pg.thrown
                   THEN /\ pc' = "failed" /\ failure' = "decode" /\ des' = pg.d
                        /\ UNCHANGED <<names, tag_index, next_instance_id>>
                   ELSE /\ des' = pg.d /\ names' = pg.names /\ UNCHANGED failure
                        /\ IF ~pg.brk
                           THEN /\ next_instance_id' = pg.next_instance_id
                                /\ pc' = "page" /\ UNCHANGED tag_index
                           ELSE IF tag_index < Len(tag_types)
                           THEN /\ tag_index' = tag_index + 1
                                /\ next_instance_id' = <<1, 0, 0, 0>>
                                /\ pc' = "page"
                           ELSE /\ pc' = IF num_variables = 0 THEN "catalog" ELSE "info"
                                /\ UNCHANGED <<tag_index, next_instance_id>>
    /\ UNCHANGED <<host, num_variables, varinfos, result, restEnum>>

\* what names[i] may hold for an i beyond the end of names
GarbageNames == {<<>>, <<85, 48>>}

\* one pass of the last for loop of get_variables_fast: get_variable_info of
\* names[i]; names[i] beyond the end of names is undefined behaviour
Enum_GetVariableInfo ==
    /\ pc = "info"
    /\ LET i == Len(varinfos) IN
       \E name \in (IF i < Len(names) THEN {names[i + 1]} ELSE GarbageNames) :
           \E s1 \in {encode_get_attribute_all_name(ser, name, host)} :
           \E reply \in Deliveries(InfoResponse(serialized_buffer(s1))) :
           \E rq \in {request(des, reply, host)} :
           \E gv \in {get_variable_info(rq.d, name, host)} :
               /\ ser' = s1
               /\ sent' = Append(sent, serialized_buffer(s1))
               /\ arg' = reply
               /\ IF rq.thrown # ""
                  THEN /\ pc' = "failed" /\ failure' = rq.thrown /\ des' = rq.d
                       /\ UNCHANGED varinfos
                  ELSE IF gv.thrown
                  THEN /\ pc' = "failed" /\ failure' = "decode" /\ des' = gv.d
                       /\ UNCHANGED varinfos
                  ELSE /\ des' = gv.d /\ UNCHANGED failure
                       /\ varinfos' = Append(varinfos, gv.var)
                       /\ pc' = IF i + 1 < num_variables THEN "info" ELSE "catalog"
    /\ UNCHANGED <<host, num_variables, names, tag_index, next_instance_id,
                   served, result, restEnum>>

\* names[i] beyond the end of names: the access faults
Enum_OutOfBounds ==
    /\ pc = "info"
    /\ Len(varinfos) >= Len(names)
    /\ pc' = "failed"
    /\ failure' = "crash"
    /\ UNCHANGED <<host, ser, des, num_variables, names, tag_index,
                   next_instance_id, varinfos, sent, served, result, arg,
                   restEnum>>

\* list_signals once get_variables_fast has returned vars
Enum_Catalog ==
    /\ pc = "catalog"
    /\ result' = list_signals(varinfos)
    /\ pc' = "done"
    /\ UNCHANGED <<host, ser, des, num_variables, names, tag_index,
                   next_instance_id, varinfos, failure, sent, served, arg,
                   restEnum>>

NextEnum ==
    \/ Enum_GetNumVariables
    \/ Enum_GetAllInstances
    \/ Enum_GetVariableInfo
    \/ Enum_OutOfBounds
    \/ Enum_Catalog

SpecEnum == InitEnum /\ [][NextEnum]_vars

---------------------------------------------------------------------------
(* What the transport has seen *)

\* the Get_All_Instances requests of a tag type, in the order they were sent
PageRequests(t) ==
    SelectSeq(sent, LAMBDA r : r[1] = 95 /\ RequestTagType(r) = t)

\* the Get_Attribute_All requests with a symbolic path, in the order they
\* were sent
InfoRequests == SelectSeq(sent, LAMBDA r : r[1] = 1 /\ r[3] = 145)

\* the names the stream of a tag type has returned, in controller order
StreamNames(t) ==
    Concat([j \in 1..Len(served[t]) |->
               [i \in 1..Len(served[t][j]) |-> served[t][j][i].name]])

\* system_names ++ user_names
AllNames == StreamNames(TagSystem) \o StreamNames(TagUser)

\* get_variables_fast has returned
Returned == pc \in {"catalog", "done"}

\* the while loop of a tag type has been left, and nothing has failed
PagingDone(t) ==
    /\ pc \in {"page", "info", "catalog", "done"}
    /\ \/ pc # "page"
       \/ \E j \in 1..(tag_index - 1) : tag_types[j] = t

\* C8: when get_variables_fast returns for a count N and streams that have
\* returned at least N names, it returns exactly N entries, entry i named by
\* element i of system_names ++ user_names, and exactly N info requests
\* have been sent, request i for that same name.
C8_Completeness ==
    (Returned /\ Len(AllNames) >= num_variables) =>
        /\ Len(varinfos) = num_variables
        /\ \A i \in 1..num_variables : varinfos[i].name = AllNames[i]
        /\ Len(InfoRequests) = num_variables
        /\ \A i \in 1..num_variables : RequestName(InfoRequests[i]) = AllNames[i]

\* the enumeration has returned two entries, one named by the System stream
\* and one by the User stream, which returned more names than were wanted
C8_Witness ==
    /\ pc = "done"
    /\ num_variables = 2
    /\ Len(StreamNames(TagSystem)) = 1
    /\ Len(StreamNames(TagUser)) >= 2
    /\ Len(varinfos) = 2

\* C9: for each tag type the first Get_All_Instances request carries the
\* cursor 1 and every later one the id of the last instance of the page
\* before it, plus one (in uint32_t); no request follows an empty page, so
\* a tag type whose paging is over has seen one request more than it has
\* non-empty pages; a controller with no variables and no instances sees
\* two Get_All_Instances requests and gets an empty catalog.
C9_Cursor ==
    /\ \A t \in {TagSystem, TagUser} :
          LET rs == PageRequests(t)
              pg == served[t] IN
          /\ Len(rs) >= 1 => RequestCursor(rs[1]) = <<1, 0, 0, 0>>
          /\ \A j \in 2..Len(rs) :
                /\ j - 1 <= Len(pg)
                /\ pg[j - 1] # <<>>
                /\ RequestCursor(rs[j]) = Inc(pg[j - 1][Len(pg[j - 1])].id)
          /\ \A j \in 1..Len(pg) : pg[j] = <<>> => (j = Len(pg) /\ Len(rs) = j)
          /\ PagingDone(t) => Len(rs) = Cardinality(NonEmptyPages(t)) + 1
    /\ (pc = "done" /\ num_variables = 0 /\ served = <<<< <<>> >>, << <<>> >>>>) =>
          /\ Len(PageRequests(TagSystem)) = 1
          /\ Len(PageRequests(TagUser)) = 1
          /\ result = <<>>

\* the User stream has returned the ids 1, 2, 5, then 6, 9, then nothing,
\* and the requests carried the cursors 1, 6, 10
C9_Witness ==
    LET rs == PageRequests(TagUser)
        pg == served[TagUser] IN
    /\ PagingDone(TagUser)
    /\ Len(rs) = 3
    /\ Len(pg) = 3
    /\ [i \in 1..Len(pg[1]) |-> pg[1][i].id[1]] = <<1, 2, 5>>
    /\ [i \in 1..Len(pg[2]) |-> pg[2][i].id[1]] = <<6, 9>>
    /\ pg[3] = <<>>
    /\ [j \in 1..3 |-> RequestCursor(rs[j])] =
           <<<<1, 0, 0, 0>>, <<6, 0, 0, 0>>, <<10, 0, 0, 0>>>>

---------------------------------------------------------------------------
(* SpecCat: list_signals on any short list of resolved variables *)

\* the bytes a data type may hold: the enumerators and two other bytes
TypeBytes == DataTypeValues \cup {1, 255}

\* dimensions and start indices of arrays: one, two and no dimension
ArrayShapes ==
    <<[dimensions |-> <<2>>, start_indices |-> <<1>>],
      [dimensions |-> <<2, 3>>, start_indices |-> <<1, 0>>],
      [dimensions |-> <<>>, start_indices |-> <<>>]>>

\* the variables get_variable_info may return under the name of place i: an
\* array_info is there for an Array and for nothing else; the shape of an
\* array goes with its element type
VariablesAt(i) ==
    {[name |-> <<86, 48 + i>>, data_type |-> t, size |-> 4, array_info |-> <<>>] :
        t \in TypeBytes \ {DataType.Array}}
    \cup
    {[name |-> <<86, 48 + i>>, data_type |-> DataType.Array, size |-> 8,
      array_info |-> <<[element_type |-> e, element_size |-> 4]
                       @@ ArrayShapes[(e % Len(ArrayShapes)) + 1]>>] :
        e \in TypeBytes}

RECURSIVE VariableLists(_)
VariableLists(n) ==
    IF n = 0 THEN {<<>>}
    ELSE LET shorter == VariableLists(n - 1) IN
         shorter \cup {Append(vs, v) : vs \in {l \in shorter : Len(l) = n - 1},
                                       v \in VariablesAt(n)}

InitCat ==
    /\ host = "little"
    /\ pc = "catalog"
    /\ ser = NewSerializer(Zeros(SendBufferSize), "little")
    /\ des = NewDeserializer(Zeros(RecvBufferSize), "little")
    /\ result = Unused
    /\ call = NoCall
    /\ ret = TRUE
    /\ out = <<>>
    /\ touched = {}
    /\ arg = Unused
    /\ num_variables = 0
    /\ names = <<>>
    /\ tag_index = 1
    /\ next_instance_id = <<1, 0, 0, 0>>
    /\ failure = ""
    /\ sent = <<>>
    /\ served = <<<<>>, <<>>>>
    /\ varinfos \in VariableLists(MaxVars)

NextCat == Enum_Catalog

SpecCat == InitCat /\ [][NextCat]_vars

\* the type strings of bytes that are no enumerator
UnknownStrings == {"Unknown(" \o Hex(b) \o ")" : b \in 0..255}

\* the records of the catalog are those of the variables that satisfy Emit,
\* in their order, and none has a type string of a structure or of an
\* unknown byte
CatalogOf(Emit(_)) ==
    LET kept == SelectSeq(varinfos, Emit) IN
    /\ Len(result) = Len(kept)
    /\ \A i \in 1..Len(kept) : result[i].name = kept[i].name
    /\ \A i \in 1..Len(result) :
          result[i].type \notin {"STRUCTURE", "ABBREVIATED_STRUCTURE"} \cup UnknownStrings

\* a recognized DataType, Undefined included, that is no structure
C10_ListedAsStated(t) ==
    t \in DataTypeValues \ {DataType.Structure, DataType.AbbreviatedStructure}

\* C10 as stated: a record is emitted iff data_type is a recognized DataType,
\* Undefined included, other than Structure and AbbreviatedStructure, and the
\* element type of an Array likewise.
C10_AsStated ==
    pc = "done" =>
        CatalogOf(LAMBDA v :
            /\ C10_ListedAsStated(v.data_type)
            /\ v.data_type = DataType.Array =>
                   C10_ListedAsStated(v.array_info[1].element_type))

\* a recognized DataType that is neither Undefined nor a structure
C10_Listed(t) ==
    t \in DataTypeValues \ {DataType.Undefined, DataType.Structure,
                            DataType.AbbreviatedStructure}

\* C10: list_signals emits a record for a variable iff its data_type is an
\* enumerator of DataType other than Undefined, Structure and
\* AbbreviatedStructure and, for an Array, its element type likewise; the
\* records are a subsequence of the variables in their order, and no type
\* string is STRUCTURE, ABBREVIATED_STRUCTURE or Unknown(<hex>).
C10_CatalogFilter ==
    pc = "done" =>
        CatalogOf(LAMBDA v :
            /\ C10_Listed(v.data_type)
            /\ v.data_type = DataType.Array =>
                   C10_Listed(v.array_info[1].element_type))

\* list_signals has dropped a variable of type Undefined and kept another
C10_Witness ==
    /\ pc = "done"
    /\ Len(varinfos) = 2
    /\ varinfos[1].data_type = DataType.Undefined
    /\ Len(result) = 1
    /\ result[1].name = varinfos[2].name

---------------------------------------------------------------------------
(* The records of the catalog *)

\* the variable a record of the catalog was made of (names differ by place)
VariableOf(record) ==
    CHOOSE v \in {varinfos[j] : j \in 1..Len(varinfos)} : v.name = record.name

\* C11: a record of the catalog has the arrayDimensions field iff its
\* variable is an Array; the field then has one pair per dimension, pair i
\* being [start_indices[i], start_indices[i] + dimensions[i]], and the type
\* is the string of the element type; the type of a scalar is the string
\* of its data_type.
C11_ArrayDimensions ==
    pc = "done" =>
        \A r \in 1..Len(result) :
            LET record == result[r]
                v == VariableOf(record) IN
            IF v.data_type = DataType.Array
            THEN /\ Len(record.arrayDimensions) = 1
                 /\ Len(record.arrayDimensions[1]) = Len(v.array_info[1].dimensions)
                 /\ \A i \in 1..Len(v.array_info[1].dimensions) :
                       record.arrayDimensions[1][i] =
                           <<v.array_info[1].start_indices[i],
                             v.array_info[1].start_indices[i]
                                 + v.array_info[1].dimensions[i]>>
                 /\ record.type = to_string(v.array_info[1].element_type)
            ELSE /\ record.arrayDimensions = <<>>
                 /\ record.type = to_string(v.data_type)

\* the catalog holds a scalar, then an array of two dimensions with the
\* pairs [1, 3] and [0, 3]
C11_Witness ==
    /\ pc = "done"
    /\ Len(result) = 2
    /\ result[1].arrayDimensions = <<>>
    /\ result[1].type = "DINT"
    /\ result[2].arrayDimensions = << <<<<1, 3>>, <<0, 3>>>> >>
    /\ VariableOf(result[2]).data_type = DataType.Array

---------------------------------------------------------------------------
(* Errors of a request *)

\* the last request has failed: the transport failed, the response is
\* larger than the receive buffer, its general status is not 0, or decoding
\* it has set the error flag of the deserializer
RequestFailed ==
    /\ sent # <<>>
    /\ \/ arg.failed
       \/ arg.size > RecvBufferSize
       \/ (Len(arg.data) >= 3 /\ arg.data[3] # 0)
       \/ des.has_error

\* C12 as stated: a request that fails in any of these ways ends the
\* enumeration at that request, and an enumeration that has ended so returns
\* no catalog.
C12_AsStated ==
    /\ RequestFailed => pc = "failed"
    /\ pc = "failed" => result = Unused

---------------------------------------------------------------------------
(* omcon.cpp: the message of a CIP status error *)

\* general_status_message(status)
general_status_message(status) ==
    CASE status = 0 -> "Success"
      [] status = 1 -> "Connection Failure"
      [] status = 2 -> "Resource Unavailable"
      [] status = 3 -> "Invalid Parameter Value"
      [] status = 4 -> "Path Segment Error"
      [] status = 5 -> "Path Destination Error"
      [] status = 7 -> "Connection Lost"
      [] status = 9 -> "Invalid Attribute Value"
      [] status = 12 -> "Object State Conflict"
      [] status = 17 -> "Reply Data Too Large"
      [] status = 19 -> "Not Enough Data"
      [] status = 21 -> "Too Much Data"
      [] status = 31 -> "Vendor Specific Error"
      [] status = 32 -> "Invalid Parameter"
      [] OTHER -> ""

\* the table of extended_status_message, by the uint16_t status
extended_status_table(status) ==
    CASE status = 32784 -> "Downloading, starting up"
      [] status = 32785 -> "Tag memory error"
      [] status = 258 -> "The read target is a variable I/O that cannot be read."
      [] status = 8452 -> "The read target is a variable I/O that cannot be read."
      [] status = 260 -> "An address or size that exceeds the segment area is specified."
      [] status = 4355 -> "An address or size that exceeds the segment area is specified."
      [] status = 32769 -> "Internal Abnormality"
      [] status = 32775 -> "An inaccessible variable was specified"
      [] status = 32809 -> "An area that cannot be accessed in bulk was specified in SimpleDataSegment."
      [] status = 32817 -> "Internal error (memory allocation error)"
      [] status = 32777 -> "Segment Type Abnormal"
      [] status = 32783 -> "Data length information in the request data is inconsistent"
      [] status = 32791 -> "Requesting more than one element for a single data item"
      [] status = 32792 -> "Requesting 0 elements or exceeding the range of array data"
      [] status = 32801 -> "A value other than 0 or 2 was specified in the AddInfo area."
      [] status = 32802 -> "The Data Type of the Request Service Data does not match the type of TAG information. The AddInfo Length of the Request Service Data is not 0."
      [] status = 32803 -> "Internal error (invalid command format)"
      [] status = 32804 -> "Internal error (invalid command length)"
      [] status = 32805 -> "Internal error (invalid parameter)"
      [] status = 32807 -> "Internal error (parameter error)"
      [] status = 32808 -> "A value outside the range was written to a variable with a subrange specified. An undefined value was written to an Enum type variable."
      [] OTHER -> ""

\* extended_status_message(ext_status): nothing unless the status has two
\* bytes; std::memcpy copies them into a uint16_t of the host
extended_status_message(ext_status, native) ==
    IF Len(ext_status) # 2 THEN ""
    ELSE extended_status_table(Val(ObjectValue(ext_status, native)))

\* no value of a std::optional
Nullopt == [has_value |-> FALSE, value |-> <<>>]

\* extended_status_to_int(data): read_int<T> copies sizeof(T) bytes into a T
\* of the host; a size that is no integer width gives std::nullopt
extended_status_to_int(data, native) ==
    IF Len(data) \in {1, 2, 4, 8}
    THEN [has_value |-> TRUE, value |-> ObjectValue(data, native)]
    ELSE Nullopt

\* a number without its leading zero bytes
RECURSIVE Significant(_)
Significant(v) ==
    IF v = <<>> \/ v[Len(v)] # 0 THEN v
    ELSE Significant(SubSeq(v, 1, Len(v) - 1))

\* the bytes of a number, highest first, two hexadecimal digits each
RECURSIVE HexBytes(_)
HexBytes(v) ==
    IF v = <<>> THEN ""
    ELSE HexBytes(Tail(v)) \o HexDigits[(Head(v) \div 16) + 1]
                           \o HexDigits[(Head(v) % 16) + 1]

\* fmt's {:#x} of an unsigned integer
HexAlt(v) ==
    LET w == Significant(v) IN
    IF w = <<>> THEN "0x0"
    ELSE "0x" \o Hex(w[Len(w)]) \o HexBytes(SubSeq(w, 1, Len(w) - 1))

\* fmt's {:#x} of a std::optional<uint64_t> (spdlog/fmt/std.h), as the pieces
\* it writes
FormatOptional(o) ==
    IF o.has_value THEN <<"optional(", HexAlt(o.value), ")">> ELSE <<"none">>

\* RequestContext::request, from the decoded response on: the pieces appended
\* to the message of the error thrown for a general status other than 0
status_error(general_status, extended_status, native) ==
    IF general_status = 0 THEN [thrown |-> "", message |-> <<>>]
    ELSE
        LET gen_message == general_status_message(general_status)
            ext_message == extended_status_message(extended_status, native)
            head == <<"Received error status in CIP response: ",
                      HexAlt(<<general_status>>)>>
            ext == IF extended_status # <<>>
                   THEN <<", extended: ">>
                        \o FormatOptional(
                               extended_status_to_int(extended_status, native))
                   ELSE <<>>
            texts == IF gen_message # "" \/ ext_message # ""
                     THEN <<" - ">>
                          \o (IF gen_message # "" THEN <<gen_message>> ELSE <<>>)
                          \o (IF ext_message # ""
                              THEN <<", ", ext_message>> ELSE <<>>)
                     ELSE <<>>
        IN  [thrown |-> "cip_status", message |-> head \o ext \o texts]

\* the decoded responses a request is given: general statuses with and
\* without a table entry, extended statuses of 0, 2, 4, 6 and 8 bytes
GeneralStatuses == {0, 1, 6, 12, 31, 32, 255}

ExtendedStatuses ==
    {<<>>, <<7, 128>>, <<128, 7>>, <<16, 128>>, <<2, 1>>, <<0, 0>>,
     <<52, 18>>, <<7, 128, 0, 0>>, <<7, 128, 0, 0, 1, 0>>,
     <<7, 128, 0, 0, 0, 0, 0, 0>>}

InitMsg ==
    /\ pc = "call"
    /\ host \in Hosts
    /\ \E g \in GeneralStatuses, e \in ExtendedStatuses :
           arg = [general_status |-> g, extended_status |-> e]
    /\ result = Unused
    /\ ser = NewSerializer(<<>>, "little")
    /\ des = NewDeserializer(<<>>, "little")
    /\ call = NoCall
    /\ ret = TRUE
    /\ out = <<>>
    /\ touched = {}
    /\ EnumIdle

Msg_Request ==
    /\ pc = "call"
    /\ result' = status_error(arg.general_status, arg.extended_status, host)
    /\ pc' = "done"
    /\ UNCHANGED <<host, arg>>
    /\ UNCHANGED restPath

NextMsg == Msg_Request

SpecMsg == InitMsg /\ [][NextMsg]_vars

\* the extended status as the number the controller sent (low byte first)
ExtendedHex(extended_status) == HexAlt(extended_status)

\* the strings of the message
Pieces(message) == {message[i] : i \in 1..Len(message)}

\* C13 as stated: a status error is raised iff the general status is not 0;
\* its message is the prefix and 0x<gen>, then ", extended: 0x<ext>" iff
\* the extended status is not empty, then " - <gen_msg>[, <ext_msg>]" iff
\* one of the table messages is not empty; status 0x1F with the extended
\* bytes 07 80 gives a message holding 0x1f, 0x8007 and both table texts.
C13_AsStated ==
    pc = "done" =>
        LET g == arg.general_status
            e == arg.extended_status
            gen_msg == general_status_message(g)
            ext_msg == IF Len(e) = 2 THEN extended_status_table(Val(e)) ELSE ""
        IN  /\ (result.thrown = "cip_status") <=> (g # 0)
            /\ g # 0 =>
                result.message =
                    <<"Received error status in CIP response: ",
                      HexAlt(<<g>>)>>
                    \o (IF e # <<>>
                        THEN <<", extended: ", ExtendedHex(e)>> ELSE <<>>)
                    \o (IF gen_msg # "" \/ ext_msg # ""
                        THEN <<" - ">>
                             \o (IF gen_msg # "" THEN <<gen_msg>> ELSE <<>>)
                             \o (IF ext_msg # ""
                                 THEN <<", ", ext_msg>> ELSE <<>>)
                        ELSE <<>>)
            /\ (g = 31 /\ e = <<7, 128>>) =>
                {"0x1f", "0x8007", "Vendor Specific Error",
                 "An inaccessible variable was specified"}
                    \subseteq Pieces(result.message)

---------------------------------------------------------------------------
(* omcon.cpp: RequestContext::request after an earlier response *)

\* the deserializer an earlier response has left behind: at any cursor, with
\* or without an error
EarlierDeserializers ==
    {[NewDeserializer(b, "little") EXCEPT !.cursor = c, !.has_error = e] :
        b \in {<<>>, <<129, 0, 0, 0, 1, 0, 2, 0>>},
        c \in {0, 4, 8}, e \in BOOLEAN}

\* the responses of the controller to one request: a count reply, an error
\* reply, a reply with two extended status words
Responses ==
    {CipReply(1, <<1, 0, 2, 0>>), CipErrorReply(1),
     <<129, 0, 0, 2, 7, 128, 0, 0, 5, 6>>}

\* the receive buffer and the size get_data reports: the response in full,
\* the size short of the bytes in the buffer, a size beyond the buffer, a
\* failure of the transport
Receptions ==
    UNION {Deliveries(resp) : resp \in Responses}
    \cup {[failed |-> FALSE, size |-> n, data |-> resp] :
            resp \in Responses, n \in {0, 3, 5}}

InitReq ==
    /\ pc = "call"
    /\ host \in Hosts
    /\ des \in {d \in EarlierDeserializers : d.cursor <= Len(d.buffer)}
    /\ arg \in Receptions
    /\ result = Unused
    /\ ser = NewSerializer(<<>>, "little")
    /\ call = NoCall
    /\ ret = TRUE
    /\ out = <<>>
    /\ touched = {}
    /\ EnumIdle

\* rc.request(): result keeps the deserializer as it was before the call
Req_Request ==
    /\ pc = "call"
    /\ \E r \in {request(des, arg, host)} :
        /\ des' = r.d
        /\ result' = [thrown |-> r.thrown, before |-> des]
    /\ pc' = "done"
    /\ UNCHANGED <<host, arg, ser, call, ret, out, touched, enumVars>>

NextReq == Req_Request

SpecReq == InitReq /\ [][NextReq]_vars

\* the length of the CIP envelope of a response: four bytes and the extended
\* status words
EnvelopeLen(data) == 4 + 2 * data[4]

\* C14: a size beyond the receive buffer makes request fail with the
\* buffer-too-small error and leaves the cursor and the error flag of the
\* deserializer as they were (nothing is decoded); with a size
\* within the buffer the deserializer afterwards is over the first size bytes
\* of the receive buffer, and its error flag and cursor depend on these bytes
\* alone: an error iff they do not hold the whole envelope, else the cursor
\* just after the envelope, whatever the cursor and flag were before.
C14_FreshDeserializer ==
    (pc = "done" /\ ~arg.failed) =>
        IF arg.size > RecvBufferSize
        THEN /\ result.thrown = "buffer_too_small"
             /\ des.cursor = result.before.cursor
             /\ des.has_error = result.before.has_error
        ELSE /\ result.thrown # "buffer_too_small"
             /\ des.buffer = SubSeq(arg.data, 1, arg.size)
             /\ des.has_error <=>
                    (arg.size < 4 \/ arg.size < EnvelopeLen(arg.data))
             /\ ~des.has_error => des.cursor = EnvelopeLen(arg.data)
             /\ (result.thrown = "cip_decode") <=> des.has_error

\* a response decoded without error although the deserializer before the call
\* had its error flag set and its cursor at the end of a longer buffer; the
\* receive buffer holds more bytes than the size reported
C14_Witness ==
    /\ pc = "done"
    /\ result.thrown = ""
    /\ result.before.has_error
    /\ result.before.cursor = 8
    /\ ~des.has_error
    /\ des.cursor = 4
    /\ Len(arg.data) > arg.size
    /\ Len(des.buffer) = arg.size

---------------------------------------------------------------------------
(* The resolve loop of get_variables_fast *)

\* C15 as stated: the resolve loop never reads names at an index of
\* |names| or beyond, and sends at most |names| info requests.
C15_AsStated ==
    /\ failure # "crash"
    /\ Len(InfoRequests) <= Len(names)

---------------------------------------------------------------------------
(* The cursor of the paging loop *)

\* the cursors of the Get_All_Instances requests of a tag type, in the order
\* they were sent
Cursors(t) ==
    [j \in 1..Len(PageRequests(t)) |-> Val(RequestCursor(PageRequests(t)[j]))]

\* C16 as stated: a page that does not advance the cursor (last id + 1 at
\* most the cursor just requested, the wrap of id 0xFFFFFFFF to 0 included)
\* ends the enumeration; no request of a tag type asks for the same or an
\* earlier page than the request before it.
C16_AsStated ==
    \A t \in {TagSystem, TagUser} :
        \A j \in 1..(Len(Cursors(t)) - 1) : Cursors(t)[j + 1] > Cursors(t)[j]

---------------------------------------------------------------------------
(* list_signals.cpp: decode_instance_data on one record *)

\* the records of a page: an id, the entry length the controller states, a
\* name, and the bytes that follow the name
InstanceRecords ==
    {[id |-> id, entry_len |-> e, name |-> nm, trailing |-> Zeros(m)] :
        id \in {<<1, 0, 0, 0>>, <<0, 1, 0, 0>>},
        nm \in {<<>>, <<65>>, <<65, 66>>},
        e \in 0..(7 + 2 + 2), m \in 0..2}

\* a record on the wire
RecordBytes(r) ==
    r.id \o Digits(r.entry_len, 2) \o <<107, 0>> \o r.id
    \o <<Len(r.name)>> \o r.name \o r.trailing

InitInst ==
    /\ pc = "call"
    /\ host \in Hosts
    /\ arg \in {r \in InstanceRecords :
                   r.entry_len \in {0, 6 + Len(r.name), 7 + Len(r.name),
                                    8 + Len(r.name), 9 + Len(r.name)}}
    /\ des = NewDeserializer(RecordBytes(arg), "little")
    /\ result = Unused
    /\ ser = NewSerializer(<<>>, "little")
    /\ call = NoCall
    /\ ret = TRUE
    /\ out = <<>>
    /\ touched = {}
    /\ EnumIdle

\* the for loop of get_variables_fast over a page of one instance
Inst_Decode ==
    /\ pc = "call"
    /\ \E r \in {decode_instances(des, 0, 1, <<>>, <<1, 0, 0, 0>>, host)} :
        /\ des' = r.d
        /\ result' = [names |-> r.names, next_instance_id |-> r.next_instance_id,
                      thrown |-> r.thrown]
    /\ pc' = "done"
    /\ UNCHANGED <<host, arg, ser, call, ret, out, touched, enumVars>>

NextInst == Inst_Decode

SpecInst == InitInst /\ [][NextInst]_vars

\* C17 as stated: a record whose entry_len is less than 2 + 4 + 1 + name_len
\* is a decode error; a record with entry_len of at least 7 + name_len that
\* decodes leaves the cursor entry_len bytes after the entry_len field.
C17_AsStated ==
    pc = "done" =>
        /\ arg.entry_len < 2 + 4 + 1 + Len(arg.name) => result.thrown
        /\ (arg.entry_len >= 7 + Len(arg.name) /\ ~result.thrown) =>
               des.cursor = 4 + 2 + arg.entry_len

---------------------------------------------------------------------------
(* The header of a page *)

\* the last request was a Get_All_Instances request, and its response has a
\* whole envelope with general status 0 but fewer than the four bytes of the
\* page header (num_instances and the two bytes after it)
TruncatedHeader ==
    /\ sent # <<>>
    /\ sent[Len(sent)][1] = 95
    /\ ~arg.failed
    /\ arg.size <= RecvBufferSize
    /\ arg.size >= 4
    /\ arg.data[3] = 0
    /\ arg.size >= EnvelopeLen(arg.data)
    /\ arg.size < EnvelopeLen(arg.data) + 2 + 2

\* C18 as stated: a Get_All_Instances response too short for the page
\* header ends the enumeration with a decode error; it is not taken for an
\* empty page.
C18_AsStated == TruncatedHeader => (pc = "failed" /\ failure = "decode")

---------------------------------------------------------------------------
(* The order of the requests *)

\* the step a request belongs to: 0 for the count request, the tag type for
\* a Get_All_Instances request, 3 for an info request
StepOf(r) ==
    IF r[1] = 95 THEN RequestTagType(r)
    ELSE IF r[3] = 145 THEN 3
    ELSE 0

\* the count request comes first and only once, the requests for System come
\* before those for User, and those before the info requests
RequestOrder ==
    sent # <<>> =>
        /\ sent[1] = <<1, 3, 32, 106, 37, 0, 0, 0>>
        /\ \A j \in 2..Len(sent) :
               StepOf(sent[j]) # 0 /\ StepOf(sent[j - 1]) <= StepOf(sent[j])

\* C19 as stated: in a list_signals that returns, the transport has seen one
\* count request, then the requests for System, then those for User, then
\* the info requests, one for each collected name from the first on, in the
\* order the names were collected.
C19_AsStated ==
    pc = "done" =>
        /\ RequestOrder
        /\ Len(InfoRequests) <= Len(names)
        /\ \A j \in 1..Len(InfoRequests) :
               RequestName(InfoRequests[j]) = names[j]

---------------------------------------------------------------------------
(* The dimensions of an array *)

\* the ArrayInfo of the variables get_variable_info has returned
ArrayInfos ==
    {varinfos[j].array_info[1] :
        j \in {i \in 1..Len(varinfos) : varinfos[i].array_info # <<>>}}

\* C20 as stated: every ArrayInfo get_variable_info returns has as many
\* start indices as dimensions, and between 1 and 255 of them; an Array
\* response with num_dimensions = 0 gives no VariableInfo.
C20_AsStated ==
    \A a \in ArrayInfos :
        /\ Len(a.dimensions) = Len(a.start_indices)
        /\ 1 <= Len(a.dimensions)
        /\ Len(a.dimensions) <= 255

---------------------------------------------------------------------------
(* omcon.cpp: get_variable_info on one info payload *)

\* the descriptors a controller may send: scalars of known and unknown type,
\* arrays of known and unknown element type with 0 to MaxDims dimensions
InfoDescriptors ==
    {[data_type |-> t, size |-> s] :
        t \in {DataType.Dint, DataType.Structure, DataType.Undefined, 1},
        s \in {2, 4}}
    \cup
    {[data_type |-> DataType.Array, size |-> s, element_type |-> e,
      dimensions |-> dims, start_indices |-> [i \in 1..Len(dims) |-> i % 2]] :
        s \in {1, 4}, e \in {DataType.Bool, DataType.Dint, 1},
        dims \in SeqsUpTo({2, 17}, MaxDims)}

\* the bytes get_variable_info reads of the payload of a descriptor: size
\* and data_type; for an array also element_type, num_dimensions, a byte,
\* the dimensions, 8 + 1 + 3 + 4 bytes and the start indices
FieldBytes(desc) ==
    IF desc.data_type = DataType.Array
    THEN 4 + 1 + 1 + 1 + 1 + 4 * Len(desc.dimensions) + 8 + 1 + 3 + 4
         + 4 * Len(desc.start_indices)
    ELSE 4 + 1

InitInfo ==
    /\ pc = "call"
    /\ host \in Hosts
    /\ \E desc \in InfoDescriptors :
       \E n \in 0..Len(InfoPayload(desc)) :
           /\ arg = [desc |-> desc, n |-> n]
           /\ des = NewDeserializer(SubSeq(InfoPayload(desc), 1, n), "little")
    /\ result = Unused
    /\ ser = NewSerializer(<<>>, "little")
    /\ call = NoCall
    /\ ret = TRUE
    /\ out = <<>>
    /\ touched = {}
    /\ EnumIdle

\* get_variable_info from the decoded envelope on: a VariableInfo, or the
\* exception and none
Info_Decode ==
    /\ pc = "call"
    /\ \E gv \in {get_variable_info(des, <<86, 49>>, host)} :
        /\ des' = gv.d
        /\ result' = IF gv.thrown THEN [thrown |-> TRUE, var |-> <<>>]
                     ELSE [thrown |-> FALSE, var |-> <<gv.var>>]
    /\ pc' = "done"
    /\ UNCHANGED <<host, arg, ser, call, ret, out, touched, enumVars>>

NextInfo == Info_Decode

SpecInfo == InitInfo /\ [][NextInfo]_vars

\* C21: get_variable_info throws and returns nothing iff the payload ends
\* before the last field it reads; the VariableInfo it returns has an
\* ArrayInfo iff its data_type is Array; an array's element_size is the size
\* on the wire and its size is get_array_size of the dimensions, element type
\* and element size read; any other variable's size is the size on the wire.
C21_VariableInfo ==
    pc = "done" =>
        /\ result.thrown <=> arg.n < FieldBytes(arg.desc)
        /\ result.thrown => result.var = <<>>
        /\ ~result.thrown =>
            LET var == result.var[1]
                desc == arg.desc IN
            /\ var.data_type = desc.data_type
            /\ (var.array_info # <<>>) <=> (var.data_type = DataType.Array)
            /\ IF var.data_type = DataType.Array
               THEN /\ var.array_info[1].element_size = desc.size
                    /\ var.array_info[1].element_type = desc.element_type
                    /\ var.array_info[1].dimensions = desc.dimensions
                    /\ var.array_info[1].start_indices = desc.start_indices
                    /\ var.size = get_array_size(desc.dimensions,
                                                 desc.element_type, desc.size)
               ELSE var.size = desc.size

\* an array of 17 x 2 DINT of element size 4 decoded from its whole payload:
\* size 136, element_size 4
C21_Witness ==
    /\ pc = "done"
    /\ ~result.thrown
    /\ arg.desc.data_type = DataType.Array
    /\ arg.desc.element_type = DataType.Dint
    /\ arg.desc.dimensions = <<17, 2>>
    /\ arg.n = FieldBytes(arg.desc)
    /\ result.var[1].size = 136
    /\ result.var[1].array_info[1].element_size = 4
    /\ result.var[1].array_info[1].start_indices = <<1, 0>>

---------------------------------------------------------------------------
(* The cursor of the serializer in size_t *)

\* a write or advance of n succeeds only if cursor + n <= capacity as
\* numbers; the cursor stays within the capacity; only reset() lowers it
C22_CursorStep ==
    /\ (call'.op \in {"write", "advance"} /\ ret')
          => ser.cursor + call'.n <= Len(ser.buffer)
    /\ ser'.cursor <= Len(ser'.buffer)
    /\ ser'.cursor < ser.cursor => call'.op = "reset"

\* C22 as stated: for every size_t argument, those near the largest size_t
\* included, a write or advance of the serializer succeeds only if
\* cursor + n <= capacity as mathematical integers, the cursor stays in
\* 0..capacity and never decreases except through reset().
C22_AsStated == [][pc = "ser" => C22_CursorStep]_vars

---------------------------------------------------------------------------
(* list_signals.cpp: encode_omron_get_all_instances on a used serializer *)

\* the serializer an earlier request has left behind: a send buffer too
\* small for the request, exactly large enough, or larger, full of old
\* bytes, at some cursor, with or without an error
UsedSerializers ==
    {[NewSerializer([i \in 1..c |-> 255], "little")
         EXCEPT !.cursor = k, !.has_error = e] :
        c \in {10, 18, 24}, k \in {0, 5, 10}, e \in BOOLEAN}

\* cursors and instance ids to encode
CursorArgs == {<<1, 0, 0, 0>>, <<0, 1, 0, 0>>, <<4, 3, 2, 1>>, <<255, 255, 255, 255>>}

InstanceArgs == {0, 1, 255, 256, 258, 65535}

InitEnc ==
    /\ pc = "call"
    /\ host \in Hosts
    /\ ser \in UsedSerializers
    /\ \E id \in CursorArgs, t \in {TagSystem, TagUser}, N \in InstanceArgs :
           arg = [next_instance_id |-> id, tag_type |-> t, instance_id |-> N]
    /\ result = Unused
    /\ des = NewDeserializer(<<>>, "little")
    /\ call = NoCall
    /\ ret = TRUE
    /\ out = <<>>
    /\ touched = {}
    /\ EnumIdle

\* encode_omron_get_all_instances(ser, next_instance_id, tag_type), and
\* address_request_path(0x6A, instance_id); result keeps the serializer as
\* it was before the call
Enc_Call ==
    /\ pc = "call"
    /\ \E enc \in {encode_omron_get_all_instances(ser, arg.next_instance_id,
                                                    arg.tag_type, host)} :
        /\ ser' = enc.s
        /\ result' = [thrown |-> enc.thrown, before |-> ser,
                      path |-> address_request_path(106, arg.instance_id, host)]
    /\ pc' = "done"
    /\ UNCHANGED <<host, arg, des, call, ret, out, touched, enumVars>>

NextEnc == Enc_Call

SpecEnc == InitEnc /\ [][NextEnc]_vars

\* C23: on a send buffer of at least 18 bytes, whatever it held before,
\* encode_omron_get_all_instances leaves serialized_buffer() equal to 5F 03,
\* 20 6A 25 00 00 00, next_instance_id in 4 bytes low byte first,
\* 20 00 00 00 and tag_type in 2 bytes low byte first, and does not throw (on
\* a smaller buffer it throws); address_request_path(0x6A, N) is 20 6A 25 00,
\* N mod 256, N div 256.
C23_RequestBytes ==
    pc = "done" =>
        /\ result.path = <<32, 106, 37, 0, arg.instance_id % 256,
                           arg.instance_id \div 256>>
        /\ result.thrown <=> Len(ser.buffer) < 18
        /\ ~result.thrown =>
               serialized_buffer(ser) =
                   <<95, 3, 32, 106, 37, 0, 0, 0>> \o arg.next_instance_id
                   \o <<32, 0, 0, 0>> \o <<arg.tag_type, 0>>

\* the request for User from cursor 0x01020304 encoded on a big-endian host
\* into a used 24-byte send buffer whose error flag was set
C23_Witness ==
    /\ pc = "done"
    /\ host = "big"
    /\ ~result.thrown
    /\ Len(ser.buffer) = 24
    /\ result.before.has_error
    /\ result.before.cursor = 10
    /\ ser.cursor = 18
    /\ ser.buffer[19] = 255
    /\ serialized_buffer(ser) =
           <<95, 3, 32, 106, 37, 0, 0, 0, 4, 3, 2, 1, 32, 0, 0, 0, 2, 0>>
    /\ result.path = <<32, 106, 37, 0, 2, 1>>

---------------------------------------------------------------------------
(* SpecRes: the resolve loop and the catalog on collected names *)

\* names of a DINT, of a variable whose type byte is no enumerator, of an
\* array whose element type byte is no enumerator, and of an array of BOOL
ResolveNames == {<<83, 48>>, <<83, 52>>, <<88, 49>>, <<83, 49>>}

\* the descriptor the controller holds for a name
DescriptorFor(name) ==
    IF name[1] = 88 THEN UnknownElementArray ELSE DescriptorOf(name)

\* get_variables_fast after the paging: as many names as the count
InitRes ==
    /\ host \in Hosts
    /\ pc = "info"
    /\ names \in SeqsUpTo(ResolveNames, MaxVars) \ {<<>>}
    /\ num_variables = Len(names)
    /\ ser = NewSerializer(Zeros(SendBufferSize), "little")
    /\ des = NewDeserializer(Zeros(RecvBufferSize), "little")
    /\ tag_index = Len(tag_types)
    /\ next_instance_id = <<1, 0, 0, 0>>
    /\ varinfos = <<>>
    /\ failure = ""
    /\ sent = <<>>
    /\ served = <<<<>>, <<>>>>
    /\ result = Unused
    /\ arg = Unused
    /\ call = NoCall
    /\ ret = TRUE
    /\ out = <<>>
    /\ touched = {}

NextRes ==
    \/ Enum_GetVariableInfo
    \/ Enum_Catalog

SpecRes == InitRes /\ [][NextRes]_vars

\* the catalog lists a variable of this descriptor
ListedDescriptor(desc) ==
    /\ include_signal_data_type_in_list(desc.data_type)
    /\ desc.data_type = DataType.Array
           => include_signal_data_type_in_list(desc.element_type)

\* C24: the resolve loop fails only at a response that was not delivered
\* whole, never at a type byte or element type byte that is no enumerator;
\* entry j of the resolved list is the variable of name j with the type byte
\* the controller sent; the list that get_variables_fast returns has N
\* entries; the catalog holds the names whose types it lists, in order, so
\* the variables of unknown type are dropped there and only there.
C24_UnknownTypeRetained ==
    /\ pc = "failed" => ~Delivered(arg, InfoResponse(sent[Len(sent)]))
    /\ Len(varinfos) <= Len(names)
    /\ \A j \in 1..Len(varinfos) :
           /\ varinfos[j].name = names[j]
           /\ varinfos[j].data_type = DescriptorFor(names[j]).data_type
           /\ varinfos[j].array_info # <<>> =>
                  varinfos[j].array_info[1].element_type
                      = DescriptorFor(names[j]).element_type
    /\ pc \in {"catalog", "done"} => Len(varinfos) = num_variables
    /\ pc = "done" =>
           [j \in 1..Len(result) |-> result[j].name]
               = SelectSeq(names, LAMBDA n : ListedDescriptor(DescriptorFor(n)))

\* a returned catalog of the one DINT that was resolved after a variable of
\* unknown type, which is kept in the resolved list and not in the catalog
C24_Witness ==
    /\ pc = "done"
    /\ Len(varinfos) = 2
    /\ ~is_valid_value(varinfos[1].data_type)
    /\ varinfos[2].data_type = DataType.Dint
    /\ Len(result) = 1
    /\ result[1].name = names[2]

===========================================================================
